---- MODULE Spec2Model ----
(***************************************************************************)
(* A model of tosh, a very simple shell: the session loop (tosh_loop), the *)
(* reader (tosh_read_line), the tokenizer (tosh_split_line), the expander  *)
(* (tosh_expand_args) and the dispatcher (tosh_execute, tosh_launch and    *)
(* the builtins), as they stand in the latest revision of tosh.c (the      *)
(* second half of src/unnamed/part_000).  The synchronisation of           *)
(* environment variables is left out; the prompt and the history file      *)
(* appear only in the pass of a subshell child.                            *)
(*                                                                         *)
(* The session (Spec, SpecExp, SpecFile) treats a subshell evaluation as   *)
(* one step with a chosen output; SpecEval follows the two processes of    *)
(* tosh_eval_inline step by step in the variable ev.  io is the stdio      *)
(* stream stdin with its buffer, and trail the cd commands of SpecCd.      *)
(*                                                                         *)
(* Strings are sequences of one-character strings.  The C string           *)
(* terminator is never part of such a sequence: reading position           *)
(* Len(s) + 1 of a line yields NUL.                                        *)
(*                                                                         *)
(* Memory obtained from malloc is not initialised.  The record mem fixes,  *)
(* for one pass of the loop, what the allocations of that pass hold beyond *)
(* what the program stored in them: mem.bytes non-zero bytes (JunkChar)    *)
(* right after the characters stored in a character buffer, then a zero    *)
(* byte; mem.slots non-null stale pointers right after the pointers stored *)
(* in a pointer array, then a null pointer.  A stale pointer is either     *)
(* readable (it then points to StaleStr) or makes the process crash.       *)
(***************************************************************************)
EXTENDS Integers, Sequences, FiniteSets, TLC

VARIABLES pc, loop, line, ateof, mem, tok, args, status, disp, child,
          nread, nsplit, ndisp, nfork, home, cwd, lastdir, exitcode, exp,
          trail, io, ev, sub

vars == <<pc, loop, line, ateof, mem, tok, args, status, disp, child,
          nread, nsplit, ndisp, nfork, home, cwd, lastdir, exitcode, exp,
          trail, io, ev, sub>>

(* ---------------- bounds ---------------- *)
\* longest generated line handed to the tokenizer
MaxLen == 4
\* number of lines one session reads
MaxLines == 2
\* number of cd commands run one after another
MaxCd == 3
\* bytes a pipe holds before a write to it blocks
PipeCap == 6
\* most non-zero bytes found after the stored part of a character buffer
MaxJunk == 1
\* most stale pointers found after the stored part of a pointer array
MaxJunkSlots == 1
\* longest generated argument handed to the expander
MaxTok == 2

(* ---------------- characters and strings ---------------- *)
NUL == "NUL"
TOSH_COMMENT_CHAR == "#"
JunkChar == "?"
StaleStr == <<JunkChar>>

EXIT_SUCCESS == 0

\* line[i] of a C string, with 1-based i: the terminator follows the text.
CharAt(s, i) == IF i >= 1 /\ i <= Len(s) THEN s[i] ELSE NUL

Last(s) == s[Len(s)]
Front(s) == SubSeq(s, 1, Len(s) - 1)

RECURSIVE Repeat(_, _)
Repeat(x, n) == IF n <= 0 THEN <<>> ELSE <<x>> \o Repeat(x, n - 1)

\* What malloc may hand out.
Mem == [bytes : 0..MaxJunk, slots : 0..MaxJunkSlots]
CleanMem == [bytes |-> 0, slots |-> 0]

\* A character buffer fresh from malloc into which the characters w were
\* stored from its start and no terminator: read as a C string it shows w
\* and then the non-zero bytes the buffer happens to hold beyond w.
AsRead(w, m) == w \o Repeat(JunkChar, m.bytes)

\* A pointer array fresh from malloc whose first Len(v) slots were stored
\* and no end marker: read up to the first null pointer it shows v and
\* then the stale pointers the array happens to hold beyond v.
VecAsRead(v, m) == v \o Repeat(StaleStr, m.slots)

(* ---------------- tosh_split_line ---------------- *)
\* The tokenizer's locals at the top of its while loop.  tokens holds the
\* characters stored so far in each token buffer; *tp is the last one and
\* j is its length.
SplitStart ==
  [i |-> 1, q |-> 0, bl |-> 0, num_args |-> 0, tokens |-> <<<<>>>>]

\* (*tp)[j++] = c
PutChar(s, c) ==
  [s EXCEPT !.tokens[Len(s.tokens)] = Append(@, c)]

\* tp++; *tp = malloc(...); j = 0; num_args++
NextToken(s) ==
  [s EXCEPT !.tokens = Append(@, <<>>), !.num_args = @ + 1]

SplitResult(ret, diag, s) ==
  [ret |-> ret, diag |-> diag, tokens |-> s.tokens, bl |-> s.bl, q |-> s.q,
   num_args |-> s.num_args]

\* A tokenizer that lets an open quote pass at the end of the line.
SplitEndNoQuoteCheck(s, m) ==
  IF s.bl # 0
  THEN SplitResult("NULL", "mismatched brackets", s)
  ELSE IF s.num_args = 0 /\ Len(AsRead(Last(s.tokens), m)) = 0
  THEN SplitResult("NULL", "no arguments", s)
  ELSE SplitResult("tokens", "none", s)

\* case EOF: case '\n': case '\0': case TOSH_COMMENT_CHAR:
\* strlen(*tp) reads a buffer that was given no terminator.
SplitEnd(s, m) ==
  IF s.bl # 0
  THEN SplitResult("NULL", "mismatched brackets", s)
  ELSE IF s.q # 0
  THEN SplitResult("NULL", "mismatched quotes", s)
  ELSE IF s.num_args = 0 /\ Len(AsRead(Last(s.tokens), m)) = 0
  THEN SplitResult("NULL", "no arguments", s)
  ELSE SplitResult("tokens", "none", s)

\* A backslash case that also consumes the character after the backslash
\* when that character is neither a quote nor a backslash.
BackslashDropsNext(s1, n) ==
  IF n = "'" \/ n = "\\"
  THEN PutChar([s1 EXCEPT !.i = @ + 1], n)
  ELSE [s1 EXCEPT !.i = @ + 1]

\* case '\\': s1 is the state after c = line[i++] and n is line[i].  Only
\* the two branches that store a character do i++.
Backslash(s1, n) ==
  IF n = "'" \/ n = "\\"
  THEN PutChar([s1 EXCEPT !.i = @ + 1], n)
  ELSE s1

\* A comment character that is taken literally inside a quoted or
\* bracketed region.
EndsLineOutsideRegions(c, s) ==
  c = NUL \/ c = "\n" \/ (c = TOSH_COMMENT_CHAR /\ s.q = 0 /\ s.bl = 0)

\* case EOF: case '\n': case '\0': case TOSH_COMMENT_CHAR:, whatever the
\* quote flag and the depth in s (a line never holds EOF).
EndsLine(c, s) ==
  c = NUL \/ c = "\n" \/ c = TOSH_COMMENT_CHAR

\* One pass of the while loop per call: c = line[i++]; switch (c) ...
RECURSIVE SplitLoop(_, _, _)
SplitLoop(ln, s, m) ==
  IF s.bl < 0
  THEN SplitResult("NULL", "mismatched brackets", s)
  ELSE
    LET c == CharAt(ln, s.i)
        n == CharAt(ln, s.i + 1)
        s1 == [s EXCEPT !.i = @ + 1]
    IN
    CASE c = "(" ->
           SplitLoop(ln, PutChar([s1 EXCEPT !.bl = IF s.q = 0 THEN @ + 1 ELSE @], c), m)
      [] c = ")" ->
           SplitLoop(ln, PutChar([s1 EXCEPT !.bl = IF s.q = 0 THEN @ - 1 ELSE @], c), m)
      [] c = "'" ->
           SplitLoop(ln, [s1 EXCEPT !.q = IF s.q # 0 THEN 0 ELSE 1], m)
      [] c = "\\" ->
           SplitLoop(ln, Backslash(s1, n), m)
      [] c = " " ->
           IF s.bl = 0 /\ s.q = 0
           THEN SplitLoop(ln, NextToken(s1), m)
           ELSE SplitLoop(ln, PutChar(s1, c), m)
      [] EndsLine(c, s) ->
           SplitEnd(s1, m)
      [] OTHER ->
           SplitLoop(ln, PutChar(s1, c), m)

tosh_split_line(ln, m) == SplitLoop(ln, SplitStart, m)

\* The token list as its readers see it: no token buffer was given a
\* terminator and the list was given no end marker.
TokensAsRead(r, m) ==
  VecAsRead([k \in 1..Len(r.tokens) |-> AsRead(r.tokens[k], m)], m)

(* ---------------- the environment ---------------- *)
\* getenv("HOME"): unset, or the value of HomeDir.
HomeDir == <<"/", "h">>
HomeUnset == <<>>
HomeValues == {HomeUnset, HomeDir}
HomeU == <<"/", "h", "o", "m", "e", "/", "u">>

\* The directories chdir can enter.
Dirs == {<<"/">>, HomeDir, <<"/", "t">>}

\* What the working directory may hold, in the order glob reports it.
FileSystems ==
  { << >>,
    << <<"a">>, <<"a", "b">>, <<"b">> >> }

\* What the parent's read of the from-child channel meets: the bytes the
\* subshell child wrote, or a failure of the read.
ReadError == <<"read error">>
Outputs ==
  { << >>,
    <<"a">>,
    <<"h", "i", "\n">>,
    <<"~", "\n">>,
    <<"a", "*", "\n">>,
    <<"a", "b", "c", "d", "\n">>,
    ReadError }

(* ---------------- tosh_expand_tilde ---------------- *)
IndexOf(s, c) ==
  IF \E k \in 1..Len(s) : s[k] = c
  THEN CHOOSE k \in 1..Len(s) : s[k] = c /\ \A l \in 1..(k - 1) : s[l] # c
  ELSE 0

\* A substitution that replaces the first ~ only.
tosh_expand_tilde_first(str, h) ==
  IF h = HomeUnset THEN str
  ELSE LET t == IndexOf(str, "~") IN
       IF t = 0 THEN str
       ELSE SubSeq(str, 1, t - 1) \o h \o SubSeq(str, t + 1, Len(str))

\* A substitution that hands back nothing when HOME is not set.
tosh_expand_tilde_gives_up(str, h) ==
  IF h = HomeUnset THEN << >> ELSE tosh_expand_tilde_first(str, h)

RECURSIVE tosh_expand_tilde(_, _)
tosh_expand_tilde(str, h) ==
  IF h = HomeUnset THEN str
  ELSE LET t == IndexOf(str, "~") IN
       IF t = 0 THEN str
       ELSE tosh_expand_tilde(
              SubSeq(str, 1, t - 1) \o h \o SubSeq(str, t + 1, Len(str)), h)

(* ---------------- tosh_expand_expression ---------------- *)
\* First position at or after i (0-based, as in the code) whose character
\* is in stop; the terminator is always in stop.
RECURSIVE ScanTo(_, _, _)
ScanTo(str, i, stop) ==
  IF CharAt(str, i + 1) \in stop THEN i ELSE ScanTo(str, i + 1, stop)

\* A locator whose unbracketed expression runs to the end of the token.
tosh_locate_expression_to_end(str) ==
  LET d == ScanTo(str, 0, {"$", NUL}) IN
  IF CharAt(str, d + 1) = NUL
  THEN [found |-> 0, si |-> 0, ei |-> 0, rsi |-> 0, rei |-> 0]
  ELSE IF CharAt(str, d + 2) = "("
  THEN LET e == ScanTo(str, d + 1, {")", NUL}) IN
       IF CharAt(str, e + 1) = NUL
       THEN [found |-> 0, si |-> d + 2, ei |-> 0, rsi |-> d, rei |-> 0]
       ELSE [found |-> 1, si |-> d + 2, ei |-> e, rsi |-> d, rei |-> e + 1]
  ELSE LET e == ScanTo(str, d + 1, {NUL}) IN
       [found |-> 1, si |-> d + 1, ei |-> e, rsi |-> d, rei |-> e]

\* The indices are the code's 0-based ones: the expression is str[si..ei)
\* and the replaced span is str[rsi..rei).
tosh_locate_expression(str) ==
  LET d == ScanTo(str, 0, {"$", NUL}) IN
  IF CharAt(str, d + 1) = NUL THEN [found |-> 0, si |-> 0, ei |-> 0, rsi |-> 0, rei |-> 0]
  ELSE IF CharAt(str, d + 2) = "("
  THEN LET e == ScanTo(str, d + 1, {")", NUL}) IN
       IF CharAt(str, e + 1) = NUL
       THEN [found |-> 0, si |-> d + 2, ei |-> 0, rsi |-> d, rei |-> 0]
       ELSE [found |-> 1, si |-> d + 2, ei |-> e, rsi |-> d, rei |-> e + 1]
  ELSE LET e == ScanTo(str, d + 1, {" ", "\t", "\n", NUL}) IN
       [found |-> 1, si |-> d + 1, ei |-> e, rsi |-> d, rei |-> e]

\* newstr = str[0..si) + substr + str[ei..]
tosh_str_substitute(str, si, ei, substr) ==
  SubSeq(str, 1, si) \o substr \o SubSeq(str, ei + 1, Len(str))

Max(S) == CHOOSE x \in S : \A y \in S : y <= x
Min(S) == CHOOSE x \in S : \A y \in S : x <= y

\* The bytes malloc'd for newstr, and the highest count of bytes of newstr
\* that the three strcpy calls write (each with its terminator).
SubstituteAllocated(str, si, ei, substr) ==
  Len(str) - (ei - si + 1) + Len(substr) + 1

SubstituteWritten(str, si, ei, substr) ==
  Max({Len(str) + 1,
       si + Len(substr) + 1,
       si + Len(substr) + (Len(str) - ei) + 1})

\* The size of the evaluator's result buffer and of its one read: 2048 in
\* the source, scaled down here so that an output longer than the buffer
\* is among Outputs.
RESULT_BUF_INC == 4

\* bytes_read = read(backpipe_fd[0], buf, bufsize): one read, made after
\* the child has terminated.
bytes_read(out) ==
  IF out = ReadError THEN -1 ELSE Min({Len(out), RESULT_BUF_INC})

\* buf[bytes_read - 1] = '\0' lands before the start of buf.
EvalWritesOutside(out) == bytes_read(out) - 1 < 0

\* The parent's side of the evaluation: out is what the child wrote.  The
\* last byte read is overwritten by the terminator whatever it is; with
\* nothing read the result buffer was never written.
tosh_eval_inline(out, m) ==
  IF bytes_read(out) <= 0 THEN AsRead(<< >>, m)
  ELSE SubSeq(out, 1, bytes_read(out) - 1)

\* found is FALSE where the code returns a null pointer; expr is the text
\* handed to the subshell.
tosh_expand_expression(str, out, m) ==
  LET l == tosh_locate_expression(str) IN
  IF l.found = 0
  THEN [found |-> FALSE, str |-> str, expr |-> << >>, result |-> << >>,
        overrun |-> FALSE]
  ELSE LET result == tosh_eval_inline(out, m) IN
       [found |-> TRUE,
        str |-> tosh_str_substitute(str, l.rsi, l.rei, result),
        expr |-> SubSeq(str, l.si + 1, l.ei),
        result |-> result,
        overrun |-> \/ EvalWritesOutside(out)
                    \/ SubstituteWritten(str, l.rsi, l.rei, result)
                         > SubstituteAllocated(str, l.rsi, l.rei, result)]

(* ---------------- tosh_glob_string ---------------- *)
\* glob(3) restricted to the metacharacters * and ?.
RECURSIVE GlobMatch(_, _)
GlobMatch(pat, name) ==
  IF Len(pat) = 0 THEN Len(name) = 0
  ELSE IF Head(pat) = "*"
  THEN GlobMatch(Tail(pat), name)
       \/ (Len(name) > 0 /\ GlobMatch(pat, Tail(name)))
  ELSE Len(name) > 0
       /\ (Head(pat) = "?" \/ Head(pat) = Head(name))
       /\ GlobMatch(Tail(pat), Tail(name))

\* The vector of matches; the empty vector stands for the null pointer
\* returned on GLOB_NOMATCH.
tosh_glob_string(arg, fs) ==
  SelectSeq(fs, LAMBDA f : GlobMatch(arg, f))

(* ---------------- tosh_expand_args ---------------- *)
\* A pass that substitutes the home directory after the command
\* substitution instead of before it.
ExpandStepsTildeSecond(a, h, out, fs, m) ==
  LET x == tosh_expand_expression(a, out, m)
      t == tosh_expand_tilde(x.str, h)
      globbed == tosh_glob_string(t, fs)
  IN [orig |-> a,
      nohome |-> (h = HomeUnset),
      tilde |-> tosh_expand_tilde(a, h),
      found |-> x.found,
      expr |-> x.expr,
      out |-> IF x.found THEN out ELSE << >>,
      result |-> x.result,
      overrun |-> x.overrun,
      subst |-> t,
      globbed |-> globbed,
      newargs |-> IF Len(globbed) = 0 THEN <<t>> ELSE globbed]

\* One pass of the for loop, for the token a: what each of the three steps
\* makes of it and the arguments stored into newargs.
ExpandSteps(a, h, out, fs, m) ==
  LET t == tosh_expand_tilde(a, h)
      x == tosh_expand_expression(t, out, m)
      globbed == tosh_glob_string(x.str, fs)
  IN [orig |-> a,
      nohome |-> (h = HomeUnset),
      tilde |-> t,
      found |-> x.found,
      expr |-> x.expr,
      out |-> IF x.found THEN out ELSE << >>,
      result |-> x.result,
      overrun |-> x.overrun,
      subst |-> x.str,
      globbed |-> globbed,
      newargs |-> IF Len(globbed) = 0 THEN <<x.str>> ELSE globbed]

ExpandArg(a, h, out, fs, m) == ExpandSteps(a, h, out, fs, m).newargs

RECURSIVE ExpandFrom(_, _, _, _, _, _)
ExpandFrom(av, i, h, outs, fs, m) ==
  IF i > Len(av) THEN << >>
  ELSE ExpandArg(av[i], h, outs[i], fs, m) \o ExpandFrom(av, i + 1, h, outs, fs, m)

\* av is the token list as read and outs[i] what the subshell of token i
\* writes; the result is newargs as stored.
tosh_expand_args(av, h, outs, fs, m) == ExpandFrom(av, 1, h, outs, fs, m)

\* The first size of newargs and its increment, in pointers: 64 in the
\* source, scaled down here so that a vector that outgrows it is within
\* the bounds.
TOSH_EXPAND_BUF_INC == 4

\* sizeof(char *)
PointerSize == 8

\* k >= bufsize: newargs is handed to realloc with the new count of
\* pointers taken as a count of bytes.
VectorOverrun(v) == Len(v) >= TOSH_EXPAND_BUF_INC

\* The pointers that fit the block realloc hands back.
KeptSlots == (2 * TOSH_EXPAND_BUF_INC) \div PointerSize

\* newargs as the expander leaves it.  Once it was realloc'd the pointers
\* beyond the new block lie in memory that is no longer its own: they may
\* be found intact, or overwritten (lost).
NewargsAsLeft(v, lost) ==
  IF lost /\ VectorOverrun(v)
  THEN [k \in 1..Len(v) |-> IF k > KeptSlots THEN StaleStr ELSE v[k]]
  ELSE v

\* The outputs to choose from: one for each token that holds an expression.
OutChoices(av, h) ==
  [i \in 1..Len(av) |->
     IF tosh_locate_expression(tosh_expand_tilde(av[i], h)).found = 1
     THEN Outputs ELSE {<< >>}]

(* ---------------- the builtins ---------------- *)
builtin_str ==
  << <<"c", "d">>,
     <<"s", "h", "o", "w", "e", "n", "v">>,
     <<"e", "x", "e", "c">>,
     <<"r", "e", "a", "d", "c", "o", "n", "f", "i", "g">>,
     <<"h", "e", "l", "p">>,
     <<"q", "u", "i", "t">> >>

tosh_num_builtins == Len(builtin_str)

\* chdir(path) from directory c: the new working directory.
chdir(path, c) == IF path \in Dirs THEN path ELSE c

\* A builtin yields its return value, the working directory and
\* TOSH_LAST_DIR it leaves, and whether it replaced the process image.
BuiltinResult(ret, c, ld, replaced) ==
  [ret |-> ret, cwd |-> c, lastdir |-> ld, replaced |-> replaced]

\* A cd - that goes to the recorded directory and leaves the record alone.
tosh_cd_dash_keeps_record(arg, c, ld) ==
  IF arg = <<"-">>
  THEN BuiltinResult(1, chdir(ld, c), ld, FALSE)
  ELSE BuiltinResult(1, chdir(arg, c), c, FALSE)

\* argc == 2: cd - goes to TOSH_LAST_DIR, cd dir goes to dir; both leave
\* the directory they were issued from in TOSH_LAST_DIR, whether or not
\* chdir succeeds.
tosh_cd_one_arg(arg, c, ld) ==
  IF arg = <<"-">>
  THEN BuiltinResult(1, chdir(ld, c), c, FALSE)
  ELSE BuiltinResult(1, chdir(arg, c), c, FALSE)

\* past: the non-null stale pointers that args holds after the slot in
\* which the null pointer that ended it was found.  With no argument the
\* home directory is stored in that slot and args is counted again, through
\* slots that nothing has written.
RECURSIVE tosh_cd(_, _, _, _, _)
tosh_cd(av, c, ld, h, past) ==
  IF Len(av) = 1
  THEN IF h # HomeUnset
       THEN tosh_cd(<<av[1], h>> \o Repeat(StaleStr, past), c, ld, h, 0)
       ELSE BuiltinResult(1, c, ld, FALSE)
  ELSE IF Len(av) = 2
  THEN tosh_cd_one_arg(av[2], c, ld)
  ELSE BuiltinResult(1, c, ld, FALSE)

tosh_showenv(av, c, ld) == BuiltinResult(1, c, ld, FALSE)

\* execok: execvp found and started the program.
tosh_exec(av, c, ld, execok) ==
  IF Len(av) >= 2 /\ execok
  THEN BuiltinResult(0, c, ld, TRUE)
  ELSE BuiltinResult(0, c, ld, FALSE)

tosh_readconfig(av, c, ld) == BuiltinResult(1, c, ld, FALSE)

tosh_help(av, c, ld) == BuiltinResult(1, c, ld, FALSE)

\* A quit that signals to continue.
tosh_quit_continue(av, c, ld) == BuiltinResult(1, c, ld, FALSE)

tosh_quit(av, c, ld) == BuiltinResult(0, c, ld, FALSE)

\* (*builtin_func[i])(args)
builtin_func(i, av, c, ld, h, execok, past) ==
  CASE i = 1 -> tosh_cd(av, c, ld, h, past)
    [] i = 2 -> tosh_showenv(av, c, ld)
    [] i = 3 -> tosh_exec(av, c, ld, execok)
    [] i = 4 -> tosh_readconfig(av, c, ld)
    [] i = 5 -> tosh_help(av, c, ld)
    [] i = 6 -> tosh_quit(av, c, ld)

(* ---------------- tosh_launch and tosh_execute ---------------- *)
\* How a launch can end for the parent: the fork failed, or the child
\* exited (with failure status when its execvp failed) or was killed.
LaunchOutcomes == {"forkfail", "exit0", "exitfail", "signaled"}

\* A launcher that hands the child's success on as the continue signal.
tosh_launch_child_status(outcome) == IF outcome = "exit0" THEN 1 ELSE 0

\* The value tosh_launch returns to tosh_execute.
tosh_launch(outcome) == 1

\* The dispatch decision: kind is "empty" (args[0] == NULL), "builtin"
\* with the index of the first matching name, or "launch".
tosh_execute(av) ==
  IF Len(av) = 0 THEN [kind |-> "empty", i |-> 0]
  ELSE LET i == IndexOf(builtin_str, av[1]) IN
       IF i # 0 THEN [kind |-> "builtin", i |-> i]
       ELSE [kind |-> "launch", i |-> 0]

(* ---------------- tosh_read_line ---------------- *)
\* inp holds the bytes left on stdin, end-of-input after them.  exit is
\* TRUE when the first read meets end-of-input: exit(code).  ateof is TRUE
\* when it was end-of-input that ended the line.
\* A reader that treats end-of-input as a failure.
tosh_read_line_eof_fails(inp) ==
  IF Len(inp) = 0
  THEN [exit |-> TRUE, code |-> 1, line |-> << >>,
        rest |-> << >>, ateof |-> TRUE]
  ELSE LET e == ScanTo(inp, 0, {"\n", NUL})
       IN [exit |-> FALSE, code |-> EXIT_SUCCESS,
           line |-> SubSeq(inp, 1, e), rest |-> SubSeq(inp, e + 2, Len(inp)),
           ateof |-> (e >= Len(inp))]

tosh_read_line(inp) ==
  IF Len(inp) = 0
  THEN [exit |-> TRUE, code |-> EXIT_SUCCESS, line |-> << >>,
        rest |-> << >>, ateof |-> TRUE]
  ELSE LET e == ScanTo(inp, 0, {"\n", NUL})
       IN [exit |-> FALSE, code |-> EXIT_SUCCESS,
           line |-> SubSeq(inp, 1, e), rest |-> SubSeq(inp, e + 2, Len(inp)),
           ateof |-> (e >= Len(inp))]

(* ---------------- inputs ---------------- *)
\* The characters of generated lines.
TokChars == {"a", " ", "(", ")", "'", "#", "\\", "\t"}

ExampleLines ==
  { <<"'", "a", "b", "c", " ", "d", "e", "f", "'">>,
    <<"(", "a", " ", "(", "b", ")", " ", "c", ")">>,
    <<"'", "(", " ", ")", "'">>,
    <<"a", " ", "'", ")", "(", "'", " ", "a">> }

\* The lines handed to the tokenizer on its own.
TokLines == UNION {[1..n -> TokChars] : n \in 0..MaxLen} \cup ExampleLines

\* The lines a session may read.
SessionLines ==
  { << >>,
    <<" ">>,
    <<"(", "a">>,
    <<"'", "a">>,
    <<"q", "u", "i", "t">>,
    <<"e", "x", "e", "c">>,
    <<"e", "x", "e", "c", " ", "a">>,
    <<"c", "d">>,
    <<"c", "d", " ", "/", "h">>,
    <<"c", "d", " ", "-">>,
    <<"c", "d", " ", "~">>,
    <<"c", "d", " ", "/", " ", "/", "h">>,
    <<"h", "e", "l", "p">>,
    <<"s", "h", "o", "w", "e", "n", "v">>,
    <<"r", "e", "a", "d", "c", "o", "n", "f", "i", "g">>,
    <<"a">>,
    <<"a", " ", "$", "(", "a", ")">>,
    <<"a", " ", "a", "*">> }

\* The lines of a script on stdin: a command to launch, a builtin, a line
\* with an open bracket.
ScriptLines ==
  { <<"a">>,
    <<"h", "e", "l", "p">>,
    <<"(", "a">> }

\* What ends a line on stdin: a newline, a zero byte, or end-of-input.
Terminators == {<<"\n">>, <<NUL>>, << >>}

(* ---------------- the session ---------------- *)
NoTok == SplitResult("NULL", "none", SplitStart)
NoArgs == [null |-> TRUE, v |-> << >>]
Vector(v) == [null |-> FALSE, v |-> v]
NoDisp == [kind |-> "none", name |-> << >>]
\* What the expander did, token by token; empty before it has run.
NoExp == << >>
\* The cd commands run so far, where trail is kept.
NoTrail == << >>
\* Standard input: what kind of file it is, the lines the stream has read
\* from it and not yet handed out (buf), the lines behind the position of
\* the descriptor that were read before (again), and how many lines were
\* read from the descriptor for the first time (len).
Stdin(kind) == [kind |-> kind, buf |-> << >>, again |-> << >>, len |-> 0]
Terminal == Stdin("tty")
\* No subshell evaluation is going on.
NoEval == [ppc |-> "idle"]
\* no function is being applied on its own
NoSub == [op |-> "none"]
Uninit == [init |-> FALSE, v |-> 0]
Value(n) == [init |-> TRUE, v |-> n]

InitSession ==
  /\ line = << >>
  /\ ateof = FALSE
  /\ mem = CleanMem
  /\ tok = NoTok
  /\ args = NoArgs
  /\ status = Uninit
  /\ disp = NoDisp
  /\ child = "none"
  /\ nread = 0
  /\ nsplit = 0
  /\ ndisp = 0
  /\ nfork = 0
  /\ cwd = <<"/", "t">>
  /\ lastdir = <<"/", "t">>
  /\ exitcode = {}
  /\ exp = NoExp
  /\ trail = NoTrail

InitBase ==
  /\ InitSession
  /\ sub = NoSub

\* stdin is a terminal and no subshell evaluation is going on.
InitCommon ==
  /\ InitBase
  /\ io = Terminal
  /\ ev = NoEval

\* main() calls tosh_loop(1); a subshell child calls tosh_loop(0).
Init ==
  /\ pc = "read"
  /\ loop \in {0, 1}
  /\ home \in HomeValues
  /\ InitCommon

\* What stdin may hold when the session reads: nothing more (the input is
\* exhausted), or one more line and what ends it.
Inputs ==
  IF ateof \/ nread >= MaxLines THEN {<< >>}
  ELSE {l \o t : l \in (IF io.kind = "tty" THEN SessionLines ELSE ScriptLines),
                 t \in Terminators}

\* The lines that one read of the descriptor may bring into the buffer of
\* stdin together with the line inp: none from a terminal, which hands
\* over a line at a time; the lines that follow in a file.
ReadAhead(inp) ==
  IF io.kind = "tty" \/ inp = << >> \/ nread + 1 >= MaxLines
  THEN {<< >>}
  ELSE IF Last(inp) # "\n" THEN {<< >>}
  ELSE {<< >>} \cup {<<l \o <<"\n">>>> : l \in ScriptLines}

\* line = tosh_read_line()
\* getchar() hands out what the buffer of stdin holds; when it is empty
\* it reads the descriptor from its position on: the lines behind which
\* the position was moved back, if there are any, or new input.
NextInputs ==
  IF io.buf # << >>
  THEN {[inp |-> Head(io.buf), io |-> [io EXCEPT !.buf = Tail(@)]]}
  ELSE IF io.again # << >>
  THEN {[inp |-> Head(io.again),
         io |-> [io EXCEPT !.buf = Tail(io.again), !.again = << >>]]}
  ELSE UNION {{[inp |-> inp,
                io |-> [io EXCEPT !.buf = more,
                                  !.len = @ + Len(more)
                                            + (IF inp = << >> THEN 0 ELSE 1)]] :
                 more \in ReadAhead(inp)} : inp \in Inputs}

ReadLine ==
  /\ pc = "read"
  /\ \E n \in NextInputs :
       LET r == tosh_read_line(n.inp) IN
       /\ io' = n.io
       /\ IF r.exit
          THEN /\ pc' = "exited"
               /\ exitcode' = {r.code}
               /\ UNCHANGED <<line, ateof, mem, nread>>
          ELSE /\ pc' = "split"
               /\ line' = r.line
               /\ ateof' = r.ateof
               /\ mem' \in Mem
               /\ nread' = nread + 1
               /\ UNCHANGED exitcode
  /\ UNCHANGED <<loop, tok, args, status, disp, child, nsplit, ndisp, nfork,
                 home, cwd, lastdir>>
  /\ UNCHANGED <<exp, trail, ev, sub>>

\* args = tosh_split_line(line); if (args != NULL) ...
SplitLine ==
  /\ pc = "split"
  /\ tok' = tosh_split_line(line, mem)
  /\ nsplit' = nsplit + 1
  /\ IF tok'.ret = "NULL"
     THEN args' = NoArgs /\ pc' = "while"
     ELSE args' = Vector(TokensAsRead(tok', mem)) /\ pc' = "expand"
  /\ UNCHANGED <<loop, line, ateof, mem, status, disp, child, nread, ndisp,
                 nfork, home, cwd, lastdir, exitcode>>
  /\ UNCHANGED <<exp, trail, io, ev, sub>>

\* args = tosh_expand_args(args)
Expand ==
  /\ pc = "expand"
  /\ \E fs \in FileSystems :
       \E outs \in {f \in [1..Len(args.v) -> Outputs] :
                      \A i \in 1..Len(args.v) : f[i] \in OutChoices(args.v, home)[i]} :
         /\ LET newargs == tosh_expand_args(args.v, home, outs, fs, mem) IN
            \E lost \in {l \in BOOLEAN : l => VectorOverrun(newargs)} :
              args' = Vector(VecAsRead(NewargsAsLeft(newargs, lost), mem))
         /\ exp' = [i \in 1..Len(args.v) |->
                      ExpandSteps(args.v[i], home, outs[i], fs, mem)]
  /\ pc' = "execute"
  /\ UNCHANGED <<loop, line, ateof, mem, tok, status, disp, child, nread,
                 nsplit, ndisp, nfork, home, cwd, lastdir, exitcode>>
  /\ UNCHANGED <<trail, io, ev, sub>>

\* Some substitution of the pass writes outside the buffer allocated for it.
HeapOverrun(av, h, m) ==
  \E i \in 1..Len(av) : \E out \in Outputs :
    tosh_expand_expression(tosh_expand_tilde(av[i], h), out, m).overrun

\* Some outcome of the pass stores pointers outside newargs.
VectorOverrunPossible(av, h, m) ==
  \E fs \in FileSystems :
    \E outs \in {f \in [1..Len(av) -> Outputs] :
                   \A i \in 1..Len(av) : f[i] \in OutChoices(av, h)[i]} :
      VectorOverrun(tosh_expand_args(av, h, outs, fs, m))

\* The expander follows a stale pointer of the token list into memory it
\* may not read, or the heap it has written outside a buffer of is found
\* corrupted by the allocator.
ExpandCrash ==
  /\ pc = "expand"
  /\ ~(mem.slots = 0 /\ ~HeapOverrun(args.v, home, mem)
       /\ ~VectorOverrunPossible(args.v, home, mem))
  /\ pc' = "crashed"
  /\ UNCHANGED <<loop, line, ateof, mem, tok, args, status, disp, child,
                 nread, nsplit, ndisp, nfork, home, cwd, lastdir, exitcode>>
  /\ UNCHANGED <<exp, trail, io, ev, sub>>

\* status = tosh_execute(args), up to the point where the builtin has
\* returned, the process image was replaced, or tosh_launch has forked.
Execute ==
  /\ pc = "execute"
  /\ ndisp' = ndisp + 1
  /\ LET d == tosh_execute(args.v) IN
     CASE d.kind = "empty" ->
            /\ disp' = [kind |-> "empty", name |-> << >>]
            /\ status' = Value(1)
            /\ pc' = "while"
            /\ UNCHANGED <<child, nfork, cwd, lastdir>>
       [] d.kind = "builtin" ->
            /\ disp' = [kind |-> "builtin", name |-> args.v[1]]
            /\ \E execok \in BOOLEAN, past \in 0..MaxJunkSlots :
                 LET b == builtin_func(d.i, args.v, cwd, lastdir, home, execok,
                                       past) IN
                 /\ cwd' = b.cwd
                 /\ lastdir' = b.lastdir
                 /\ IF b.replaced
                    THEN pc' = "execed" /\ UNCHANGED status
                    ELSE pc' = "while" /\ status' = Value(b.ret)
            /\ UNCHANGED <<child, nfork>>
       [] d.kind = "launch" ->
            /\ disp' = [kind |-> "launch", name |-> args.v[1]]
            /\ \E forkok \in BOOLEAN :
                 IF forkok
                 THEN /\ child' = "running"
                      /\ nfork' = nfork + 1
                      /\ pc' = "wait"
                      /\ UNCHANGED status
                 ELSE /\ child' = "forkfail"
                      /\ status' = Value(tosh_launch("forkfail"))
                      /\ pc' = "while"
                      /\ UNCHANGED nfork
            /\ UNCHANGED <<cwd, lastdir>>
  /\ UNCHANGED <<loop, line, ateof, mem, tok, args, nread, nsplit, home,
                 exitcode>>
  /\ UNCHANGED <<exp, trail, io, ev, sub>>

\* A launcher that returns as soon as waitpid reports anything.
ChildStopReturns ==
  /\ pc = "wait"
  /\ child = "running"
  /\ child' = "stopped"
  /\ status' = Value(tosh_launch("stopped"))
  /\ pc' = "while"
  /\ UNCHANGED <<loop, line, ateof, mem, tok, args, disp, nread,
                 nsplit, ndisp, nfork, home, cwd, lastdir, exitcode>>
  /\ UNCHANGED <<exp, trail, io, ev, sub>>

\* waitpid(id, &status, WUNTRACED) reports a stopped child: the do-while
\* loop of tosh_launch waits again.
ChildStop ==
  /\ pc = "wait"
  /\ child = "running"
  /\ child' = "stopped"
  /\ UNCHANGED <<pc, loop, line, ateof, mem, tok, args, status, disp, nread,
                 nsplit, ndisp, nfork, home, cwd, lastdir, exitcode>>
  /\ UNCHANGED <<exp, trail, io, ev, sub>>

\* The stopped child is continued.
ChildCont ==
  /\ pc = "wait"
  /\ child = "stopped"
  /\ child' = "running"
  /\ UNCHANGED <<pc, loop, line, ateof, mem, tok, args, status, disp, nread,
                 nsplit, ndisp, nfork, home, cwd, lastdir, exitcode>>
  /\ UNCHANGED <<exp, trail, io, ev, sub>>

\* The child whose execvp failed leaves through exit(EXIT_FAILURE), which
\* flushes the streams it inherited: for stdin on a file that moves the
\* position of the descriptor, which it shares with the parent, back to the
\* first line the stream had read and not handed out.  A program that was
\* started holds no stream of the shell.
ChildExits(how) ==
  IF how = "exitfail" /\ io.kind = "file"
  THEN [io EXCEPT !.again = io.buf]
  ELSE io

\* The child exits (with failure status when its execvp failed) or is
\* killed by a signal: waitpid reports it and tosh_launch returns.
ChildEnd ==
  /\ pc = "wait"
  /\ \E how \in {"exit0", "exitfail", "signaled"} :
       /\ (how # "signaled" => child = "running")
       /\ child' = how
       /\ status' = Value(tosh_launch(how))
       /\ io' = ChildExits(how)
  /\ pc' = "while"
  /\ UNCHANGED <<loop, line, ateof, mem, tok, args, disp, nread, nsplit,
                 ndisp, nfork, home, cwd, lastdir, exitcode>>
  /\ UNCHANGED <<exp, trail, ev, sub>>

\* The end of the loop body and } while (status && loop);  A status that
\* was never assigned holds whatever its stack slot held.  Going round,
\* the line and the arguments of the pass are gone (freed, or overwritten
\* by the next pass before they are read).
LoopCond ==
  /\ pc = "while"
  /\ \E g \in {0, 1} :
       LET st == IF status.init THEN status.v ELSE g IN
       IF st # 0 /\ loop # 0
       THEN /\ pc' = "read"
            /\ line' = << >>
            /\ mem' = CleanMem
            /\ tok' = NoTok
            /\ args' = NoArgs
            /\ disp' = NoDisp
            /\ child' = "none"
            /\ exp' = NoExp
            /\ UNCHANGED exitcode
       ELSE /\ pc' = "returned"
            /\ exitcode' = {EXIT_SUCCESS}
            /\ UNCHANGED <<line, mem, tok, args, disp, child, exp>>
  /\ UNCHANGED <<loop, ateof, status, nread, nsplit, ndisp, nfork, home, cwd,
                 lastdir>>
  /\ UNCHANGED <<trail, io, ev, sub>>

(* ---------------- tosh_eval_inline, process by process ---------------- *)
\* ev is the state of one call of tosh_eval_inline(line).  ppc and cpc are
\* the positions of the parent and of the child; id is what fork returned;
\* topipe and back are the bytes in the two pipes (topipe line by line);
\* ahead is what the buffer of stdin held at the fork, which the child
\* inherits; pending is the output the child's command still has to write.
session == <<pc, loop, line, ateof, mem, tok, args, status, disp, child,
             nread, nsplit, ndisp, nfork, home, cwd, lastdir, exitcode, exp,
             trail, io, sub>>

\* The expressions handed to the evaluator.
EvExprs ==
  { << >>,
    <<"a">>,
    <<"c", "d", " ", "/", "h">>,
    <<"q", "u", "i", "t">>,
    <<"e", "x", "e", "c", " ", "a">> }

\* What the buffer of the parent's stdin may hold at the fork: nothing, or
\* the next line of the parent's input.
EvAhead == {<< >>, << <<"h", "e", "l", "p">> >>}

\* What the child's command may write: the outputs of the session model
\* and one that does not fit the pipe.
EvOutputs == (Outputs \ {ReadError}) \cup {Repeat("a", PipeCap + 1)}

\* The text tosh_prompt writes to stdout.
PromptText == <<"%">>

\* if (isatty(fileno(stdin)) || strcmp(TOSH_FORCE_INTERACTIVE, "ON") == 0)
ShowsPrompt(tty, force) == tty \/ force = "ON"

\* tosh_record_line(line): a line of length 0 is not written.
tosh_record_line(hist, l) == IF Len(l) > 0 THEN Append(hist, l) ELSE hist

\* Whom kill(id, SIGTERM) reaches: every process the user may signal when
\* id is -1, a process id that was given back when the child was waited
\* for, or the child.
KillTarget(id, cpc) ==
  IF id = "failed" THEN "everyone"
  ELSE IF cpc = "reaped" THEN "reaped"
  ELSE "live"

InitEval ==
  /\ pc = "eval"
  /\ loop = 1
  /\ home = HomeDir
  /\ InitBase
  /\ io = Terminal
  /\ \E e \in EvExprs, f \in {"ON", "OFF"}, a \in EvAhead :
       ev = [ppc |-> "fork", cpc |-> "none", id |-> "none", expr |-> e,
             force |-> f, ahead |-> a, topipe |-> << >>, sent |-> 0,
             back |-> << >>, pending |-> << >>, cline |-> << >>,
             hist |-> << >>, prompted |-> FALSE, sig |-> "none",
             got |-> << >>, ret |-> "none", result |-> << >>,
             diag |-> "none", ccwd |-> cwd, clastdir |-> lastdir,
             cstatus |-> Uninit]

\* id = fork(); nothing is printed when it fails.
EvFork ==
  /\ ev.ppc = "fork"
  /\ \E ok \in BOOLEAN :
       ev' = [ev EXCEPT !.ppc = "write",
                        !.id = IF ok THEN "child" ELSE "failed",
                        !.cpc = IF ok THEN "write" ELSE "none",
                        !.diag = "none"]
  /\ UNCHANGED session

\* write(topipe_fd[1], line, strlen(line) + 1); close(topipe_fd[1]); then
\* in the parent the closes and malloc.
EvParentWrite ==
  /\ ev.ppc = "write"
  /\ ev' = [ev EXCEPT !.ppc = "wait",
                      !.topipe = Append(@, ev.expr),
                      !.sent = @ + 1]
  /\ UNCHANGED session

\* waitpid(id, NULL, 0) returns when the child has terminated.
EvWaitChild ==
  /\ ev.ppc = "wait"
  /\ ev.cpc = "zombie"
  /\ ev' = [ev EXCEPT !.ppc = "read", !.cpc = "reaped"]
  /\ UNCHANGED session

\* waitpid(-1, NULL, 0) with no child returns at once.
EvWaitNoChild ==
  /\ ev.ppc = "wait"
  /\ ev.id = "failed"
  /\ ev' = [ev EXCEPT !.ppc = "read"]
  /\ UNCHANGED session

\* bytes_read = read(backpipe_fd[0], buf, bufsize); close(backpipe_fd[0])
EvRead ==
  /\ ev.ppc = "read"
  /\ ev' = [ev EXCEPT !.ppc = "kill",
                      !.got = SubSeq(ev.back, 1, bytes_read(ev.back)),
                      !.back = SubSeq(ev.back, bytes_read(ev.back) + 1,
                                      Len(ev.back))]
  /\ UNCHANGED session

\* kill(id, SIGTERM)
EvKill ==
  /\ ev.ppc = "kill"
  /\ ev' = [ev EXCEPT !.ppc = "strip", !.sig = KillTarget(ev.id, ev.cpc)]
  /\ UNCHANGED session

\* buf[bytes_read - 1] = '\0'; return buf;
EvReturn ==
  /\ ev.ppc = "strip"
  /\ ev' = [ev EXCEPT !.ppc = "done",
                      !.ret = "buf",
                      !.result = tosh_eval_inline(ev.got, mem)]
  /\ UNCHANGED session

\* The child runs the same write and close before it asks who it is.
EvChildWrite ==
  /\ ev.cpc = "write"
  /\ ev' = [ev EXCEPT !.cpc = "prompt",
                      !.topipe = Append(@, ev.expr),
                      !.sent = @ + 1]
  /\ UNCHANGED session

\* tosh_loop(0), with stdin on topipe and stdout on backpipe: the prompt.
EvChildPrompt ==
  /\ ev.cpc = "prompt"
  /\ IF ShowsPrompt(FALSE, ev.force)
     THEN ev' = [ev EXCEPT !.cpc = "read",
                           !.prompted = TRUE,
                           !.back = @ \o PromptText]
     ELSE ev' = [ev EXCEPT !.cpc = "read"]
  /\ UNCHANGED session

\* line = tosh_read_line(); tosh_record_line(line);  getchar hands out
\* what the inherited buffer of stdin holds before it reads topipe.
EvChildRead ==
  /\ ev.cpc = "read"
  /\ IF ev.ahead # << >>
     THEN ev' = [ev EXCEPT !.cpc = "run",
                           !.cline = Head(ev.ahead),
                           !.ahead = Tail(@),
                           !.hist = tosh_record_line(@, Head(ev.ahead))]
     ELSE ev' = [ev EXCEPT !.cpc = "run",
                           !.cline = Head(ev.topipe),
                           !.topipe = Tail(@),
                           !.hist = tosh_record_line(@, Head(ev.topipe))]
  /\ UNCHANGED session

\* args = tosh_split_line(line); status = tosh_execute(args) in the child,
\* for a line that has nothing to expand: what the dispatch leaves of the
\* child's working directory, TOSH_LAST_DIR and status.
\* The lines a child may read, and args = tosh_split_line(line) for each.
ChildLines == EvExprs \cup UNION {{a[i] : i \in 1..Len(a)} : a \in EvAhead}

ChildArgs ==
  [l \in ChildLines |->
     LET t == tosh_split_line(l, CleanMem) IN
     IF t.ret = "NULL" THEN NoArgs ELSE Vector(TokensAsRead(t, CleanMem))]

ChildDispatch(l, c, ld, h) ==
  IF ChildArgs[l].null THEN BuiltinResult(-1, c, ld, FALSE)
  ELSE LET d == tosh_execute(ChildArgs[l].v)
       IN IF d.kind = "builtin"
          THEN builtin_func(d.i, ChildArgs[l].v, c, ld, h, TRUE, 0)
          ELSE BuiltinResult(1, c, ld, FALSE)

\* What the dispatched command may write to stdout: cd and quit write
\* nothing.
ChildOutputs(l) ==
  IF ChildArgs[l].null THEN {<< >>}
  ELSE IF tosh_execute(ChildArgs[l].v).i \in {1, 6} THEN {<< >>}
  ELSE EvOutputs

\* An evaluation that runs the line in the process of the session itself.
EvChildRunInParent ==
  /\ ev.cpc = "run"
  /\ LET b == ChildDispatch(ev.cline, cwd, lastdir, home) IN
     /\ \E out \in ChildOutputs(ev.cline) :
          ev' = [ev EXCEPT !.cpc = "out", !.pending = out, !.ccwd = b.cwd,
                           !.clastdir = b.lastdir,
                           !.cstatus = IF b.ret < 0 THEN @ ELSE Value(b.ret)]
     /\ cwd' = b.cwd
     /\ lastdir' = b.lastdir
     /\ status' = IF b.ret < 0 THEN status ELSE Value(b.ret)
  /\ UNCHANGED <<pc, loop, line, ateof, mem, tok, args, disp, child, nread,
                 nsplit, ndisp, nfork, home, exitcode, exp, trail, io, sub>>

\* The line is split, expanded and dispatched in the child, on the child's
\* own working directory, TOSH_LAST_DIR and status; the command has some
\* output to write to stdout.
EvChildRun ==
  /\ ev.cpc = "run"
  /\ LET b == ChildDispatch(ev.cline, ev.ccwd, ev.clastdir, home) IN
     \E out \in ChildOutputs(ev.cline) :
       ev' = [ev EXCEPT !.cpc = "out", !.pending = out, !.ccwd = b.cwd,
                        !.clastdir = b.lastdir,
                        !.cstatus = IF b.ret < 0 THEN @ ELSE Value(b.ret)]
  /\ UNCHANGED session

\* A write to backpipe takes what the pipe has room for and blocks for the
\* rest until the pipe is read.
EvChildOut ==
  /\ ev.cpc = "out"
  /\ ev.pending # << >>
  /\ Len(ev.back) < PipeCap
  /\ LET n == Min({Len(ev.pending), PipeCap - Len(ev.back)}) IN
     ev' = [ev EXCEPT !.back = @ \o SubSeq(ev.pending, 1, n),
                      !.pending = SubSeq(@, n + 1, Len(@))]
  /\ UNCHANGED session

\* The command is done, tosh_loop(0) returns: exit(EXIT_SUCCESS).
EvChildExit ==
  /\ ev.cpc = "out"
  /\ ev.pending = << >>
  /\ ev' = [ev EXCEPT !.cpc = "zombie"]
  /\ UNCHANGED session

EvParent ==
  \/ EvFork
  \/ EvParentWrite
  \/ EvWaitChild
  \/ EvWaitNoChild
  \/ EvRead
  \/ EvKill
  \/ EvReturn

EvChild ==
  \/ EvChildWrite
  \/ EvChildPrompt
  \/ EvChildRead
  \/ EvChildRun
  \/ EvChildOut
  \/ EvChildExit

NextEval == EvParent \/ EvChild

SpecEval == InitEval /\ [][NextEval]_vars

\* Both processes are scheduled: a step that stays possible is taken.
SpecEvalFair == SpecEval /\ WF_vars(EvParent) /\ WF_vars(EvChild)

(* ---------------- cd on its own ---------------- *)
\* The argument vectors handed to cd.
CdVectors ==
  { <<builtin_str[1]>>,
    <<builtin_str[1], <<"-">>>>,
    <<builtin_str[1], HomeDir>>,
    <<builtin_str[1], <<"/">>>>,
    <<builtin_str[1], <<"/", "x">>>>,
    <<builtin_str[1], <<"/">>, HomeDir>> }

\* tosh_cd(args), for one vector after another; trail keeps each vector and
\* the directories it was issued in.
CdStep ==
  /\ pc = "cd"
  /\ Len(trail) < MaxCd
  /\ \E av \in CdVectors, past \in 0..MaxJunkSlots :
       LET b == tosh_cd(av, cwd, lastdir, home, past) IN
       /\ cwd' = b.cwd
       /\ lastdir' = b.lastdir
       /\ status' = Value(b.ret)
       /\ trail' = Append(trail, [av |-> av, cwd |-> cwd, lastdir |-> lastdir])
  /\ UNCHANGED <<pc, loop, line, ateof, mem, tok, args, disp, child, nread,
                 nsplit, ndisp, nfork, home, exitcode, exp, io, ev, sub>>

\* After tosh_init: TOSH_LAST_DIR is the directory the shell started in.
InitCd ==
  /\ pc = "cd"
  /\ loop = 1
  /\ home \in HomeValues
  /\ InitCommon

NextCd == CdStep

SpecCd == InitCd /\ [][NextCd]_vars

Next ==
  \/ ReadLine
  \/ SplitLine
  \/ Expand
  \/ ExpandCrash
  \/ Execute
  \/ ChildStop
  \/ ChildCont
  \/ ChildEnd
  \/ LoopCond

Spec == Init /\ [][Next]_vars

(* ---------------- the session on a script ---------------- *)
\* tosh < script: stdin is a file.
InitFile ==
  /\ pc = "read"
  /\ loop = 1
  /\ home = HomeDir
  /\ InitBase
  /\ io = Stdin("file")
  /\ ev = NoEval

SpecFile == InitFile /\ [][Next]_vars

(* ---------------- the tokenizer on its own ---------------- *)
InitTok ==
  /\ pc = "tok"
  /\ loop = 1
  /\ home = HomeUnset
  /\ InitCommon

\* A line and a state of the heap are chosen.
TokChoose ==
  /\ pc = "tok"
  /\ \E l \in TokLines, m \in Mem : line' = l /\ mem' = m
  /\ pc' = "tokenize"
  /\ UNCHANGED <<loop, ateof, tok, args, status, disp, child, nread, nsplit,
                 ndisp, nfork, home, cwd, lastdir, exitcode>>
  /\ UNCHANGED <<exp, trail, io, ev, sub>>

\* args = tosh_split_line(line)
Tokenize ==
  /\ pc = "tokenize"
  /\ tok' = tosh_split_line(line, mem)
  /\ args' = IF tok'.ret = "NULL" THEN NoArgs
             ELSE Vector(TokensAsRead(tok', mem))
  /\ nsplit' = nsplit + 1
  /\ pc' = "tokenized"
  /\ UNCHANGED <<loop, line, ateof, mem, status, disp, child, nread, ndisp,
                 nfork, home, cwd, lastdir, exitcode>>
  /\ UNCHANGED <<exp, trail, io, ev, sub>>

NextTok == TokChoose \/ Tokenize

SpecTok == InitTok /\ [][NextTok]_vars

(* ---------------- the expander at work ---------------- *)
\* The characters of generated arguments.
ExpChars == {"a", "~", "$", "*"}

ExpTokens ==
  UNION {[1..n -> ExpChars] : n \in 1..MaxTok}
    \cup { <<"~", "/", "x">>,
           <<"a", "~", "a", "~">>,
           <<"$", "(", "a", ")">>,
           <<"a", "$", "(", "a", ")", "a">>,
           <<"$", "(", "a", ")", "$", "(", "a", ")">>,
           <<"$", "(", "~", ")">>,
           <<"~", "$", "(", "a", ")">> }

Echo == <<"e", "c", "h", "o">>

\* The lines of the sessions that exercise the expander: a command and one
\* generated argument, and the example echo $(echo hi) there.
ExpLines ==
  {<<"a", " ">> \o t : t \in ExpTokens}
    \cup { Echo \o <<" ", "$", "(">> \o Echo \o <<" ", "h", "i", ")", " ">>
             \o <<"t", "h", "e", "r", "e">>,
           <<"~">>,
           <<"a", " ", "b", " ", "c", " ", "d">>,
           <<"q", "u", "i", "t", " ", "~">>,
           <<"c", "d", " ", "~">> }

\* The top-level session has read its last line, which end-of-input ended.
InitExp ==
  /\ pc = "split"
  /\ loop = 1
  /\ home \in HomeValues \cup {HomeU}
  /\ line \in ExpLines
  /\ ateof = TRUE
  /\ mem \in Mem
  /\ tok = NoTok
  /\ args = NoArgs
  /\ status = Uninit
  /\ disp = NoDisp
  /\ child = "none"
  /\ nread = 1
  /\ nsplit = 0
  /\ ndisp = 0
  /\ nfork = 0
  /\ cwd = <<"/", "t">>
  /\ lastdir = <<"/", "t">>
  /\ exitcode = {}
  /\ exp = NoExp
  /\ trail = NoTrail
  /\ io = [Terminal EXCEPT !.len = 1]
  /\ ev = NoEval
  /\ sub = NoSub

SpecExp == InitExp /\ [][Next]_vars

(* ================= properties of the session ================= *)
QuitName == builtin_str[6]
ExecName == builtin_str[3]
SyntaxErrors == {"mismatched brackets", "mismatched quotes"}

\* The current line has been through the tokenizer.
AfterSplit ==
  pc \in {"while", "expand", "execute", "wait", "returned", "crashed", "execed"}

\* C1: dispatching a vector whose first argument is no builtin name returns
\* continue = true however the launch ends (the fork failed, the child
\* exited with any status, its exec failed, or it was killed by a signal),
\* and the top-level session does not end on it.
C1_LaunchAlwaysContinues ==
  (disp.kind = "launch" /\ pc \in {"while", "returned"})
    => /\ child \in LaunchOutcomes
       /\ status = Value(1)
       /\ (loop = 1 => pc # "returned")

\* A launch whose program could not be executed has returned.
C1_Witness ==
  pc = "while" /\ disp.kind = "launch" /\ child = "exitfail" /\ loop = 1

\* C2: every builtin other than quit returns continue = true, whatever its
\* arguments and whether or not its operation succeeds.
C2_OnlyQuitStops ==
  (disp.kind = "builtin" /\ disp.name # QuitName /\ pc \in {"while", "returned"})
    => status = Value(1)

\* C3: after a syntax error nothing is expanded or dispatched for the line
\* and the top-level loop goes on to the next read, on every line of the
\* session.
C3_SyntaxErrorContinues ==
  (loop = 1 /\ AfterSplit /\ tok.diag \in SyntaxErrors)
    => /\ pc = "while"
       /\ args.null
       /\ disp.kind = "none"

\* A line of spaces only (the empty line included).
Blank(ln) == \A k \in 1..Len(ln) : ln[k] = " "

\* C4: an empty or all-whitespace line gives the empty-command signal, is
\* not dispatched (no builtin runs, no process is forked) and the top-level
\* loop continues.  Stated for the case where fresh memory is all zero.
C4_BlankLineNoDispatch ==
  (loop = 1 /\ AfterSplit /\ Blank(line) /\ mem = CleanMem)
    => /\ tok.diag = "no arguments"
       /\ args.null
       /\ disp.kind = "none"
       /\ child = "none"
       /\ pc = "while"

\* C5: once the top-level session has dispatched quit, the loop ends: the
\* only step left is the return from the loop, no line is read and nothing
\* is dispatched.
C5_QuitEndsLoop ==
  [][(loop = 1 /\ disp.kind = "builtin" /\ disp.name = QuitName)
       => (pc' = "returned" /\ nread' = nread /\ ndisp' = ndisp
           /\ nsplit' = nsplit /\ nfork' = nfork)]_vars

\* The loop has returned after quit although input was left.
C5_Witness ==
  /\ pc = "returned"
  /\ loop = 1
  /\ disp.kind = "builtin"
  /\ disp.name = QuitName
  /\ ~ateof
  /\ nread < MaxLines

\* C6: a read that meets end-of-input ends the session with success status
\* and nothing is tokenized or dispatched for it; every line read before
\* has been handed to the tokenizer.
C6_EofExitsWithSuccess ==
  pc = "exited"
    => /\ exitcode = {EXIT_SUCCESS}
       /\ nsplit = nread
       /\ ndisp <= nsplit
       /\ line = << >>
       /\ tok = NoTok
       /\ args = NoArgs
       /\ disp = NoDisp

\* The input ended after a line had been read and interpreted.
C6_Witness == pc = "exited" /\ nread > 0 /\ ndisp > 0

(* ================= properties of the tokenizer ================= *)
Whitespace == {" ", "\t"}

\* The token list returned for the line, empty when none was returned.
Tokens == IF args.null THEN << >> ELSE args.v

RECURSIVE WordsFrom(_, _, _)
WordsFrom(ln, i, cur) ==
  LET done == IF cur = << >> THEN << >> ELSE <<cur>> IN
  IF i > Len(ln) THEN done
  ELSE IF ln[i] \in Whitespace THEN done \o WordsFrom(ln, i + 1, << >>)
  ELSE WordsFrom(ln, i + 1, Append(cur, ln[i]))

\* The maximal runs of non-whitespace characters of a line, in order.
Words(ln) == WordsFrom(ln, 1, << >>)

RECURSIVE Join(_)
Join(ws) ==
  IF Len(ws) = 0 THEN << >>
  ELSE IF Len(ws) = 1 THEN ws[1]
  ELSE ws[1] \o <<" ">> \o Join(Tail(ws))

\* No quote, bracket or comment character (and no backslash either).
Plain(ln) == \A k \in 1..Len(ln) : ln[k] \notin {"'", "(", ")", "#", "\\"}

\* C7: for a line without quotes, brackets and comment character the
\* tokens joined by single spaces are the line with every run of
\* whitespace collapsed, and no token is empty.  Stated for lines that
\* hold a word, and for the case where fresh memory is all zero.
C7_WhitespaceCollapse ==
  (pc = "tokenized" /\ Plain(line) /\ Words(line) # << >> /\ mem = CleanMem)
    => /\ Join(Tokens) = Join(Words(line))
       /\ \A k \in 1..Len(Tokens) : Tokens[k] # << >>

Interior(ln) == SubSeq(ln, 2, Len(ln) - 1)

\* A line that is one quoted region: ' text ' with a non-empty text free
\* of quotes, backslashes and comment characters.
QuotedLine(ln) ==
  /\ Len(ln) >= 3
  /\ ln[1] = "'"
  /\ ln[Len(ln)] = "'"
  /\ \A k \in 2..(Len(ln) - 1) : ln[k] \notin {"'", "\\", "#"}

HasParen(ln) == \E k \in 1..Len(ln) : ln[k] \in {"(", ")"}

RECURSIVE Depth(_, _)
Depth(ln, k) ==
  IF k = 0 THEN 0
  ELSE Depth(ln, k - 1)
       + (IF ln[k] = "(" THEN 1 ELSE IF ln[k] = ")" THEN -1 ELSE 0)

\* A line that is one balanced bracketed region, without quotes,
\* backslashes and comment characters.
BracketedLine(ln) ==
  /\ Len(ln) >= 2
  /\ \A k \in 1..Len(ln) : ln[k] \notin {"'", "\\", "#"}
  /\ \A k \in 1..(Len(ln) - 1) : Depth(ln, k) > 0
  /\ Depth(ln, Len(ln)) = 0

AbcDef == <<"a", "b", "c", " ", "d", "e", "f">>
ABC == <<"(", "a", " ", "(", "b", ")", " ", "c", ")">>

\* C8: a quoted region goes into one token with its spaces and without
\* the quote characters; the line 'abc def' yields exactly the one token
\* abc def.
C8_QuotedRegionOneToken ==
  pc = "tokenized" =>
    /\ (line = <<"'">> \o AbcDef \o <<"'">> => Tokens = <<AbcDef>>)
    /\ (QuotedLine(line) /\ ~HasParen(line) => Tokens = <<Interior(line)>>)

\* C9: a balanced bracketed region is one token with its parentheses and
\* spaces, the depth being zero at its end; the line (a (b) c) yields
\* exactly the one token (a (b) c); parentheses inside quotes are literal
\* and leave the depth alone.
C9_BracketedRegionOneToken ==
  pc = "tokenized" =>
    /\ (line = ABC => Tokens = <<ABC>> /\ tok.bl = 0)
    /\ (BracketedLine(line) => Tokens = <<line>> /\ tok.bl = 0)
    /\ (QuotedLine(line) /\ HasParen(line)
          => Tokens = <<Interior(line)>> /\ tok.bl = 0)

\* What the tokenizer stores for the lines of C8 and C9 is as those claims
\* say: it is the missing terminators that show in the tokens as read.
StoredRegions ==
  pc = "tokenized" =>
    /\ (QuotedLine(line) => tok.tokens = <<Interior(line)>> /\ tok.bl = 0)
    /\ (BracketedLine(line) => tok.tokens = <<line>> /\ tok.bl = 0)

\* Tokenization ended at the end of the line or at a comment character
\* (and not because the depth fell below zero).
EndedAtTerminator == pc = "tokenized" /\ tok.bl >= 0

\* C10 as stated: at the end of the line a non-zero depth gives the
\* mismatched-brackets error and a set quote flag the mismatched-quotes
\* error, and no token list is returned.
C10_ErrorsAtEnd ==
  EndedAtTerminator =>
    /\ (tok.bl # 0 => tok.diag = "mismatched brackets" /\ args.null)
    /\ (tok.q # 0 => tok.diag = "mismatched quotes" /\ args.null)

\* C10 as amended: a non-zero depth gives the mismatched-brackets error
\* whatever the quote flag; a set quote flag gives the mismatched-quotes
\* error when the depth is zero; either way no token list is returned, as
\* for the line (a.
C10_ErrorsAtEndBracketsFirst ==
  EndedAtTerminator =>
    /\ (tok.bl # 0 => tok.diag = "mismatched brackets" /\ args.null)
    /\ (tok.q # 0 /\ tok.bl = 0 => tok.diag = "mismatched quotes" /\ args.null)
    /\ (tok.q # 0 \/ tok.bl # 0 => tok.ret = "NULL")
    /\ (line = <<"(", "a">> => tok.diag = "mismatched brackets" /\ args.null)

\* A line ended inside a quoted region at depth zero.
C10_Witness ==
  /\ pc = "tokenized"
  /\ tok.q # 0
  /\ tok.bl = 0
  /\ tok.diag = "mismatched quotes"
  /\ args.null

(* ---------------- C11: backslash ---------------- *)
\* The line from position i on with every backslash that precedes neither
\* a quote nor a backslash taken out, the character after it kept.
RECURSIVE WithoutIdleBackslash(_, _)
WithoutIdleBackslash(ln, i) ==
  IF i > Len(ln) THEN << >>
  ELSE IF ln[i] # "\\" THEN <<ln[i]>> \o WithoutIdleBackslash(ln, i + 1)
  ELSE IF CharAt(ln, i + 1) \in {"'", "\\"}
  THEN <<ln[i], ln[i + 1]>> \o WithoutIdleBackslash(ln, i + 2)
  ELSE WithoutIdleBackslash(ln, i + 1)

\* The same with the character after such a backslash taken out as well.
RECURSIVE WithoutIdlePair(_, _)
WithoutIdlePair(ln, i) ==
  IF i > Len(ln) THEN << >>
  ELSE IF ln[i] # "\\" THEN <<ln[i]>> \o WithoutIdlePair(ln, i + 1)
  ELSE IF CharAt(ln, i + 1) \in {"'", "\\"}
  THEN <<ln[i], ln[i + 1]>> \o WithoutIdlePair(ln, i + 2)
  ELSE WithoutIdlePair(ln, i + 2)

\* What a tokenization comes to: the outcome, the diagnostic, the
\* characters stored in each token and the flags at the end.
Outcome(r) ==
  [ret |-> r.ret, diag |-> r.diag, tokens |-> r.tokens, q |-> r.q, bl |-> r.bl]

\* The line is a word of a's with one escaped character e at position k:
\* a...a \ e a...a
EscapedAt(ln, k, e) ==
  /\ k >= 1
  /\ k < Len(ln)
  /\ ln[k] = "\\"
  /\ ln[k + 1] = e
  /\ \A j \in 1..Len(ln) : j \notin {k, k + 1} => ln[j] = "a"

Without(ln, k) == SubSeq(ln, 1, k - 1) \o SubSeq(ln, k + 1, Len(ln))

\* An escaped quote or backslash is stored literally, both characters are
\* consumed and the quote flag is left alone.
EscapedLiteral ==
  \A k \in 1..Len(line) : \A e \in {"'", "\\"} :
    EscapedAt(line, k, e)
      => /\ tok.tokens = <<Without(line, k)>>
         /\ tok.q = 0
         /\ tok.ret = "tokens"

\* C11 as stated: an escaped quote or backslash goes literally into the
\* token; a backslash before any other character stores nothing and takes
\* that character with it, so the line is tokenized as if both were absent.
C11_BackslashDropsBoth ==
  pc = "tokenized" =>
    /\ EscapedLiteral
    /\ Outcome(tok) = Outcome(tosh_split_line(WithoutIdlePair(line, 1), mem))

\* C11 as amended: an escaped quote or backslash goes literally into the
\* token; a backslash before any other character stores nothing and only
\* the backslash is consumed, so the line is tokenized as if the backslash
\* alone were absent: the line \a yields the token a.
C11_BackslashDropsItself ==
  pc = "tokenized" =>
    /\ EscapedLiteral
    /\ Outcome(tok) = Outcome(tosh_split_line(WithoutIdleBackslash(line, 1), mem))
    /\ (line = <<"\\", "a">> => tok.tokens = <<<<"a">>>>)

\* A line with a backslash before an ordinary character was tokenized and
\* its tokens returned.
C11_Witness ==
  /\ pc = "tokenized"
  /\ \E k \in 1..(Len(line) - 1) : line[k] = "\\" /\ line[k + 1] = "a"
        /\ (k > 1 => line[k - 1] # "\\")
  /\ tok.ret = "tokens"

(* ---------------- C12: the comment character ---------------- *)
\* The part of the line before its first comment character.
BeforeComment(ln) ==
  LET k == IndexOf(ln, TOSH_COMMENT_CHAR) IN
  IF k = 0 THEN ln ELSE SubSeq(ln, 1, k - 1)

RECURSIVE ReplaceTilde(_, _)
ReplaceTilde(str, h) ==
  IF Len(str) = 0 THEN << >>
  ELSE (IF Head(str) = "~" THEN h ELSE <<Head(str)>>) \o ReplaceTilde(Tail(str), h)

HasTilde(str) == \E k \in 1..Len(str) : str[k] = "~"

\* C13: with HOME set (to a value without ~), home-directory substitution
\* turns a token into the token with every ~ replaced by the value of HOME
\* and everything else in place; a token without ~ comes back unchanged;
\* with HOME=/home/u the token ~/x becomes /home/u/x.
C13_TildeReplacedByHome ==
  home # HomeUnset =>
    \A i \in 1..Len(exp) :
      /\ exp[i].tilde = ReplaceTilde(exp[i].orig, home)
      /\ (~HasTilde(exp[i].orig) => exp[i].tilde = exp[i].orig)
      /\ (home = HomeU /\ exp[i].orig = <<"~", "/", "x">>
            => exp[i].tilde = HomeU \o <<"/", "x">>)

\* A token with two ~ has been through the substitution with HOME set.
C13_Witness ==
  /\ home = HomeU
  /\ \E i \in 1..Len(exp) :
       /\ exp[i].orig = <<"a", "~", "a", "~">>
       /\ exp[i].tilde = <<"a">> \o HomeU \o <<"a">> \o HomeU

\* The expander has returned for the current line.
Expanded == exp # NoExp

\* C14: with HOME not set, home-directory substitution leaves every token
\* as it was and emits the diagnostic; command substitution and pattern
\* expansion still work on the token, the line is dispatched, and where the
\* session ends it is the dispatched builtin that ends it.
C14_NoHomeLeavesTilde ==
  (home = HomeUnset /\ Expanded) =>
    /\ \A i \in 1..Len(exp) :
         /\ exp[i].nohome
         /\ exp[i].tilde = exp[i].orig
         /\ exp[i].subst = tosh_expand_expression(exp[i].orig, exp[i].out, mem).str
         /\ exp[i].globbed \in {tosh_glob_string(exp[i].subst, fs) : fs \in FileSystems}
    /\ pc \in {"execute", "wait", "while", "returned", "execed"}
    /\ (pc # "execute" => disp.kind \in {"builtin", "launch"})
    /\ (pc \in {"while", "returned"} => status.init)
    /\ (pc = "returned" => disp.kind = "builtin" /\ status = Value(0))

\* Without HOME, a line with a ~ was expanded and launched, and the
\* session goes on.
C14_Witness ==
  /\ home = HomeUnset
  /\ Expanded
  /\ \E i \in 1..Len(exp) : HasTilde(exp[i].orig) /\ HasTilde(exp[i].tilde)
  /\ disp.kind = "launch"
  /\ pc = "while"
  /\ status = Value(1)

\* The matches of a pattern among the names of a directory, in order.
Matches(pat, fs) == SelectSeq(fs, LAMBDA f : GlobMatch(pat, f))

\* C15: each token goes through home-directory substitution, then command
\* substitution on the result, then pattern expansion on the result of
\* that: with HOME set the expression handed to the subshell holds no ~,
\* a ~ in the text a command substitution produced stays, and that text is
\* part of the pattern that is matched against the directory.
C15_TildeThenExpressionThenGlob ==
  Expanded =>
    \A i \in 1..Len(exp) :
      /\ (home # HomeUnset => exp[i].tilde = ReplaceTilde(exp[i].orig, home))
      /\ (home # HomeUnset => ~HasTilde(exp[i].expr))
      /\ (home # HomeUnset /\ exp[i].found
            => (HasTilde(exp[i].subst) <=> HasTilde(exp[i].result)))
      /\ (~exp[i].found => exp[i].subst = exp[i].tilde)
      /\ \E fs \in FileSystems :
           exp[i].newargs = (IF Matches(exp[i].subst, fs) = << >>
                             THEN <<exp[i].subst>>
                             ELSE Matches(exp[i].subst, fs))

\* With HOME set, the expression ~ was handed to the subshell as the home
\* directory, and the a* the subshell wrote was matched against the
\* directory.
C15_Witness ==
  /\ home = HomeDir
  /\ \E i \in 1..Len(exp) :
       /\ exp[i].orig = <<"$", "(", "~", ")">>
       /\ exp[i].expr = HomeDir
       /\ exp[i].result = <<"a", "*">>
       /\ exp[i].newargs = << <<"a">>, <<"a", "b">> >>

EchoHiThere ==
  Echo \o <<" ", "$", "(">> \o Echo \o <<" ", "h", "i", ")", " ">>
    \o <<"t", "h", "e", "r", "e">>

\* The characters before the first $ of a string, and those after the span
\* made of the $, the expression and its parentheses when present.
Prefix(str) == SubSeq(str, 1, IndexOf(str, "$") - 1)
Suffix(str, expr) ==
  LET d == IndexOf(str, "$")
      n == IF CharAt(str, d + 1) = "(" THEN Len(expr) + 3 ELSE Len(expr) + 1
  IN SubSeq(str, d + n, Len(str))

\* The expander is through with the line, one way or the other.
ExpanderLeft == pc \notin {"split", "expand"}

\* C16: a substitution yields prefix + result text + suffix, and the line
\* echo $(echo hi) there, with a subshell that writes hi and a newline,
\* dispatches the external command echo with the arguments hi and there.
C16_SubstitutionSplices ==
  /\ Expanded =>
       \A i \in 1..Len(exp) :
         exp[i].found
           => exp[i].subst = Prefix(exp[i].tilde) \o exp[i].result
                               \o Suffix(exp[i].tilde, exp[i].expr)
  /\ (ExpanderLeft /\ line = EchoHiThere /\ tok.ret = "tokens"
      /\ (Expanded => exp[2].out = <<"h", "i", "\n">>))
       => /\ Expanded
          /\ args.v = <<Echo, <<"h", "i">>, <<"t", "h", "e", "r", "e">>>>
          /\ (pc # "execute" => disp = [kind |-> "launch", name |-> Echo])

\* What in C16 does hold: whenever the expander returns, each substituted
\* token is prefix + result text + suffix.
SplicedWhenReturned ==
  Expanded =>
    \A i \in 1..Len(exp) :
      exp[i].found
        => exp[i].subst = Prefix(exp[i].tilde) \o exp[i].result
                            \o Suffix(exp[i].tilde, exp[i].expr)

HasDollar(str) == \E k \in 1..Len(str) : str[k] = "$"

\* C17: command substitution is repeated until no $ expression remains:
\* when the subshell's text holds no $, no expression is left in the token
\* that goes on to pattern expansion and dispatch.
C17_AllExpressionsSubstituted ==
  Expanded =>
    \A i \in 1..Len(exp) :
      (exp[i].found /\ ~HasDollar(exp[i].result))
        => tosh_locate_expression(exp[i].subst).found = 0

\* C18: the evaluator returns the child's output less one trailing newline
\* when it ends in a newline, and the output unchanged when it does not.
\* Stated for non-empty outputs that fit the result buffer.
C18_OneTrailingNewlineStripped ==
  Expanded =>
    \A i \in 1..Len(exp) :
      (exp[i].found /\ exp[i].out # ReadError /\ Len(exp[i].out) > 0
       /\ Len(exp[i].out) < RESULT_BUF_INC)
        => exp[i].result = (IF Last(exp[i].out) = "\n" THEN Front(exp[i].out)
                            ELSE exp[i].out)

\* C19: when the child wrote nothing or the read failed, the evaluator
\* returns the empty string and has written inside its buffer only.
C19_NoOutputGivesEmptyString ==
  Expanded =>
    \A i \in 1..Len(exp) :
      (exp[i].found /\ (exp[i].out = ReadError \/ Len(exp[i].out) = 0))
        => /\ exp[i].result = << >>
           /\ ~EvalWritesOutside(exp[i].out)

\* C20: the captured text holds every byte the child wrote, whatever the
\* amount: for an output that ends in a newline, all of it but that newline.
C20_WholeOutputCaptured ==
  Expanded =>
    \A i \in 1..Len(exp) :
      (exp[i].found /\ exp[i].out # ReadError /\ Len(exp[i].out) > 0
       /\ Last(exp[i].out) = "\n")
        => exp[i].result = Front(exp[i].out)

(* ---------------- C22, C23: pattern expansion ---------------- *)
RECURSIVE Concat(_)
Concat(vs) == IF Len(vs) = 0 THEN << >> ELSE Head(vs) \o Concat(Tail(vs))

\* The arguments each token came to, in token order.
TokenArgs == [i \in 1..Len(exp) |-> exp[i].newargs]

\* The number of arguments that come before those of token i.
ArgsBefore(i) == Len(Concat(SubSeq(TokenArgs, 1, i - 1)))

\* C22: a token without a match becomes exactly one argument, the token as
\* it stood after the substitutions, at its place in the vector; none is
\* dropped and no error is raised, as for a* in an empty directory.  Stated
\* for lines without $ and for the case where fresh memory is all zero.
C22_NoMatchKeepsToken ==
  (mem = CleanMem /\ ~HasDollar(line)) =>
    /\ pc # "crashed"
    /\ Expanded =>
         \A i \in 1..Len(exp) :
           exp[i].globbed = << >>
             => /\ exp[i].newargs = <<exp[i].subst>>
                /\ ArgsBefore(i) < Len(args.v)
                /\ args.v[ArgsBefore(i) + 1] = exp[i].subst

\* C23: a token with n >= 1 matches is replaced by those n matches in the
\* resolver's order, and the argument vector is the concatenation, in token
\* order, of each token's string or matches.  Stated for the case where
\* fresh memory is all zero.
C23_MatchesInOrder ==
  (Expanded /\ mem = CleanMem) =>
    /\ \A i \in 1..Len(exp) :
         exp[i].globbed # << >>
           => \E fs \in FileSystems :
                exp[i].newargs = Matches(exp[i].subst, fs)
    /\ args.v = Concat(TokenArgs)

\* What in C22 and C23 does hold: as long as the vector stays below its
\* first size, it is the concatenation of the tokens' arguments.
ShortVectorConcatenated ==
  (Expanded /\ mem = CleanMem /\ Len(Concat(TokenArgs)) < TOSH_EXPAND_BUF_INC)
    => args.v = Concat(TokenArgs)

(* ---------------- C27: cd to the home directory ---------------- *)
\* The first line of the session has dispatched the builtin cd; what was
\* read from fresh memory was as the program stored it.
FirstLineWasCd ==
  /\ pc = "while"
  /\ nread = 1
  /\ mem = CleanMem
  /\ disp.kind = "builtin"
  /\ disp.name = builtin_str[1]

\* C27: with HOME set to an existing directory h, the lines cd ~ and cd
\* change the working directory to h and return 1 (continue); cd with more
\* than one argument changes nothing and also returns 1.
C27_CdHomeAndTooMany ==
  (FirstLineWasCd /\ home = HomeDir) =>
    /\ status = Value(1)
    /\ (args.v \in {<<builtin_str[1]>>, <<builtin_str[1], HomeDir>>}
          => cwd = HomeDir)
    /\ (Len(args.v) > 2 => cwd = <<"/", "t">> /\ lastdir = <<"/", "t">>)

\* What in C27 does hold: every cd returns 1, cd ~ goes home, and more than
\* one argument changes nothing.
CdTildeAndTooMany ==
  (FirstLineWasCd /\ home = HomeDir) =>
    /\ status = Value(1)
    /\ (args.v = <<builtin_str[1], HomeDir>> => cwd = HomeDir)
    /\ (Len(args.v) > 2 => cwd = <<"/", "t">> /\ lastdir = <<"/", "t">>)

(* ---------------- C26: cd - ---------------- *)
CdDash == <<builtin_str[1], <<"-">>>>

\* The working directory and TOSH_LAST_DIR that the i-th cd left.
CdLeft(i) ==
  IF i = Len(trail)
  THEN [cwd |-> cwd, lastdir |-> lastdir]
  ELSE [cwd |-> trail[i + 1].cwd, lastdir |-> trail[i + 1].lastdir]

\* The i-th cd changed the directory as it was asked to.
CdSucceeded(i) ==
  /\ Len(trail[i].av) = 2
  /\ IF trail[i].av = CdDash
     THEN trail[i].lastdir \in Dirs
     ELSE trail[i].av[2] \in Dirs

\* C26: a successful cd - goes to the recorded previous directory and
\* records the directory it was issued from; after a successful cd X issued
\* from A, cd - returns to A; two successful cd - in a row end where the
\* first was issued.
C26_CdDashToggles ==
  \A i \in 1..Len(trail) :
    /\ (trail[i].av = CdDash /\ CdSucceeded(i))
         => /\ CdLeft(i).cwd = trail[i].lastdir
            /\ CdLeft(i).lastdir = trail[i].cwd
    /\ (i < Len(trail) /\ CdSucceeded(i) /\ CdSucceeded(i + 1)
          /\ trail[i + 1].av = CdDash)
         => CdLeft(i + 1).cwd = trail[i].cwd

\* cd /h from /t, then cd - twice: back in /h, with /t recorded.
C26_Witness ==
  /\ Len(trail) = 3
  /\ trail[1].av = <<builtin_str[1], HomeDir>>
  /\ trail[1].cwd = <<"/", "t">>
  /\ trail[2].av = CdDash
  /\ trail[3].av = CdDash
  /\ cwd = HomeDir
  /\ lastdir = <<"/", "t">>

(* ---------------- C24: a command that cannot be executed ---------------- *)
\* C24: when execvp fails the child reports it and exits with failure; the
\* parent's state is unaffected and its session continues: tosh_launch
\* returns 1, and the session reads each line of its input once.
C24_ExecFailureLeavesParent ==
  /\ (pc = "while" /\ child = "exitfail") => status = Value(1)
  /\ nread <= io.len

\* What in C24 does hold: the launcher returns 1 after a failed execvp.
ExecFailureContinues ==
  (pc = "while" /\ child = "exitfail") => status = Value(1)

(* ---------------- C21, C25, C28, C29, C30: the subshell ---------------- *)
\* C21: the pass a subshell child runs shows no prompt, so that no prompt
\* text enters the captured output, and hands nothing to the history
\* recorder, whatever options the child inherited.
C21_ChildPassNotInteractive ==
  /\ ~ev.prompted
  /\ ev.hist = << >>

\* C25: when fork fails in the evaluator the failure is reported and the
\* substitution is abandoned: no result comes back to be substituted.
C25_ForkFailureAbandons ==
  (ev.id = "failed" /\ ev.ppc = "done") =>
    /\ ev.diag # "none"
    /\ ev.ret # "buf"

\* C28: an evaluation whose command terminates always completes, even when
\* the output is larger than the pipe.
C28_EvaluationCompletes == <>(ev.ppc = "done")

\* What in C28 does hold: an evaluation whose output fits the pipe
\* completes.
SmallOutputCompletes ==
  (ev.cpc = "out" /\ Len(ev.back) + Len(ev.pending) <= PipeCap)
    ~> (ev.ppc = "done")

\* C29: the evaluator signals only a live child that it created and has not
\* yet waited for: never a process id after the child was reaped, never -1.
C29_SignalsOnlyLiveChild == ev.sig \in {"none", "live"}

\* Once the child has read its line.
ChildHasRead == ev.cpc \in {"run", "out", "zombie", "reaped"}

\* C30: the line the child tokenizes and dispatches is the expression, also
\* when the parent had read ahead at the fork, and the to-child pipe
\* carries the expression once.
C30_ChildReadsTheExpression ==
  /\ ChildHasRead => ev.cline = ev.expr
  /\ ev.sent <= 1

\* What in C30 does hold: the child's line is the expression or a line
\* that the parent had read ahead.
ChildReadsExpressionOrAhead ==
  ChildHasRead =>
    \/ ev.cline = ev.expr
    \/ ev.cline \in UNION {{a[i] : i \in 1..Len(a)} : a \in EvAhead}

(* ---------------- C39: a cd that fails ---------------- *)
\* The i-th cd had one argument and chdir failed.
CdFailed(i) ==
  /\ Len(trail[i].av) = 2
  /\ ~CdSucceeded(i)

\* C39: a cd whose chdir fails leaves the working directory and the
\* recorded previous directory unchanged, so that a following cd - goes
\* where it would have gone before.
C39_FailedCdChangesNothing ==
  \A i \in 1..Len(trail) :
    CdFailed(i) =>
      /\ CdLeft(i).cwd = trail[i].cwd
      /\ CdLeft(i).lastdir = trail[i].lastdir
      /\ (i < Len(trail) /\ trail[i + 1].av = CdDash /\ trail[i].lastdir \in Dirs)
           => CdLeft(i + 1).cwd = trail[i].lastdir

\* What in C39 does hold: a failed cd leaves the working directory.
FailedCdKeepsWorkingDirectory ==
  \A i \in 1..Len(trail) :
    CdFailed(i) => CdLeft(i).cwd = trail[i].cwd

(* ---------------- C37: the shell waits for its child ---------------- *)
\* The launched child has neither exited nor been killed.
ChildAlive == child \in {"running", "stopped"}

\* C37: after launching a command the shell reads no line and dispatches
\* nothing until the child has exited or has been killed by a signal; a
\* child that is only stopped does not let the shell proceed.
C37_ShellWaitsForChild ==
  [][ChildAlive =>
        /\ pc = "wait"
        /\ nread' = nread
        /\ ndisp' = ndisp
        /\ nsplit' = nsplit
        /\ (pc' # "wait" => child' \in {"exit0", "exitfail", "signaled"})]_vars

\* The child of the first line is stopped and the shell is still waiting.
C37_Witness ==
  /\ child = "stopped"
  /\ pc = "wait"
  /\ nread = 1
  /\ ndisp = 1

(* ---------------- C38: the evaluation leaves the parent alone ------------ *)
\* C38: a cd, quit or exec run inside $( ) affects only the child: the
\* parent's working directory, recorded previous directory and continue
\* signal are the same after the evaluation as before it, and so is the
\* rest of the parent's session.
C38_EvaluationLeavesParent ==
  [][/\ cwd' = cwd
     /\ lastdir' = lastdir
     /\ status' = status
     /\ UNCHANGED session]_vars

\* The evaluation of cd /h is over: the child had changed its directory,
\* the parent is where it was.
C38_Witness ==
  /\ ev.ppc = "done"
  /\ ev.cline = <<"c", "d", " ", "/", "h">>
  /\ ev.ccwd = HomeDir
  /\ cwd = <<"/", "t">>
  /\ lastdir = <<"/", "t">>
  /\ status = Uninit

\* The evaluation of quit is over: the child's status was 0.
QuitInChildOnly ==
  (ev.ppc = "done" /\ ev.cline = builtin_str[6])
    => ev.cstatus = Value(0) /\ status = Uninit


\* The pointers the storage of newargs holds once k arguments have been
\* stored and the growth test after the k-th store has run: bufsize
\* pointers from malloc, bufsize bytes after a realloc.
VectorSlots(k) ==
  LET bufsize == ((k \div TOSH_EXPAND_BUF_INC) + 1) * TOSH_EXPAND_BUF_INC
  IN IF k < TOSH_EXPAND_BUF_INC THEN bufsize ELSE bufsize \div PointerSize

Stored == Len(Concat(TokenArgs))

\* C34: while the expander builds the argument vector, its storage has a
\* slot for every argument stored so far and for the next one, and growing
\* it never reduces the number of slots.
C34_VectorHasRoom ==
  Expanded =>
    \A k \in 0..Stored :
      /\ k + 1 <= VectorSlots(k)
      /\ k > 0 => VectorSlots(k) >= VectorSlots(k - 1)

\* What does hold: the vector has room as long as it was never grown.
VectorHasRoomBeforeGrowth ==
  (Expanded /\ Stored < TOSH_EXPAND_BUF_INC) =>
    \A k \in 0..Stored : k + 1 <= VectorSlots(k)

\* C35: every token the tokenizer returns is a terminated string and its
\* list ends with an end marker right after the last token, and the vector
\* the expander returns ends with an end marker right after its last
\* argument: what the expander reads of the token list, and what the
\* dispatcher, the builtins and the cleanup read of the vector, is what
\* was stored.
C35_ListsTerminated ==
  /\ pc = "expand" => args.v = tok.tokens
  /\ (pc = "execute" /\ Expanded) => Len(args.v) = Stored

\* What does hold: when the memory handed out happens to be zeroed, the
\* readers find what was stored.
ZeroedMemoryTerminates ==
  mem = CleanMem =>
    /\ pc = "expand" => args.v = tok.tokens
    /\ (pc = "execute" /\ Expanded) => Len(args.v) = Stored

(* ---------------- the tokenizer's storage ---------------- *)
\* The sizes of the source.
ARG_BUF_INC == 128
LINE_BUF_INC == 64

\* most characters stored in one token, most tokens started, deepest
\* bracket nesting
MaxStored == 130
MaxArgs == 9
MaxDepth == 1

\* The characters c = line[i++] may be; after a backslash, line[i].
GrowChars == {"a", "(", ")", "'", "\\", " ", NUL}
AfterBackslash == {"'", "\\", "a"}

\* The tokenizer's locals and its two kinds of storage after the
\* allocations at the top of tosh_split_line.  listcap is the number of
\* pointers the token list's current block holds and tokcap the bytes of
\* the current token's buffer; tokensok (tpok) says that tokens (tp)
\* points to (into) the list's current block.  charout and ptrout record a
\* character or a token pointer stored outside its storage, badrealloc a
\* realloc of a pointer that is not the start of a live block.
GrowStart ==
  [op |-> "split", q |-> 0, bl |-> 0, j |-> 0, num_args |-> 0,
   argbufsize |-> ARG_BUF_INC, linebufsize |-> LINE_BUF_INC,
   listcap |-> LINE_BUF_INC, tokcap |-> ARG_BUF_INC,
   tokensok |-> TRUE, tpok |-> TRUE,
   charout |-> FALSE, ptrout |-> FALSE, badrealloc |-> FALSE]

\* The size after while (used >= size) size += inc.
GrownSize(size, used, inc) ==
  IF used >= size THEN ((used \div inc) + 1) * inc ELSE size

\* (*tp)[j++] = c
StoreChar(g) ==
  [g EXCEPT !.charout = @ \/ g.j >= g.tokcap, !.j = @ + 1]

\* while (j * sizeof(char) >= argbufsize) { argbufsize += ARG_BUF_INC;
\* tp = realloc(tp, argbufsize * sizeof(char)); }: what is resized is the
\* block tp points to.  For the first token that is the token list
\* itself; later tp points inside the list, which realloc must not be
\* given.  The token's own buffer keeps its size.
GrowArg(g, moved) ==
  IF g.j < g.argbufsize THEN g
  ELSE LET size == GrownSize(g.argbufsize, g.j, ARG_BUF_INC) IN
       IF g.num_args = 0 /\ g.tpok
       THEN [g EXCEPT !.argbufsize = size,
                      !.listcap = size \div PointerSize,
                      !.tokensok = @ /\ ~moved]
       ELSE [g EXCEPT !.argbufsize = size, !.badrealloc = TRUE]

\* while (num_args * sizeof(char *) >= linebufsize) { linebufsize +=
\* LINE_BUF_INC; tokens = realloc(tokens, linebufsize * sizeof(char *)); }
\* tp is not moved along with the list.
GrowList(g, moved) ==
  IF g.num_args * PointerSize < g.linebufsize THEN g
  ELSE LET size == GrownSize(g.linebufsize, g.num_args * PointerSize,
                             LINE_BUF_INC) IN
       IF g.tokensok
       THEN [g EXCEPT !.linebufsize = size,
                      !.listcap = size,
                      !.tpok = @ /\ ~moved]
       ELSE [g EXCEPT !.linebufsize = size, !.badrealloc = TRUE]

\* argbufsize = ARG_BUF_INC; tp++; *tp = malloc(...); j = 0; num_args++
StartToken(g) ==
  [g EXCEPT !.argbufsize = ARG_BUF_INC,
            !.tokcap = ARG_BUF_INC,
            !.ptrout = @ \/ ~g.tpok \/ g.num_args + 1 >= g.listcap,
            !.j = 0,
            !.num_args = @ + 1]

\* One pass of the while loop on the character c (n follows it).
SplitPass(g, c, n, moved) ==
  CASE c = "(" -> StoreChar([g EXCEPT !.bl = IF g.q = 0 THEN @ + 1 ELSE @])
    [] c = ")" -> StoreChar([g EXCEPT !.bl = IF g.q = 0 THEN @ - 1 ELSE @])
    [] c = "'" -> [g EXCEPT !.q = IF g.q # 0 THEN 0 ELSE 1]
    [] c = "\\" -> IF n \in {"'", "\\"} THEN StoreChar(g) ELSE g
    [] c = " " -> IF g.bl = 0 /\ g.q = 0
                  THEN StartToken(GrowList(g, moved))
                  ELSE StoreChar(g)
    [] OTHER -> StoreChar(GrowArg(g, moved))

InitGrow ==
  /\ pc = "splitting"
  /\ loop = 1
  /\ home = HomeUnset
  /\ InitSession
  /\ io = Terminal
  /\ ev = NoEval
  /\ sub = GrowStart

\* The characters the bounds let the next pass take.
Takes(g) ==
  {c \in GrowChars :
     /\ c \in {"a", "(", ")", " ", "\\"} => g.j < MaxStored
     /\ c = " " => g.num_args < MaxArgs
     /\ c = "(" => g.bl < MaxDepth}

\* while (bl >= 0) { c = line[i++]; switch (c) ... }
SplitStep ==
  /\ pc = "splitting"
  /\ sub.bl >= 0
  /\ \E c \in Takes(sub), n \in AfterBackslash, moved \in BOOLEAN :
       IF c = NUL
       THEN pc' = "splitdone" /\ sub' = sub
       ELSE pc' = pc /\ sub' = SplitPass(sub, c, n, moved)
  /\ UNCHANGED <<loop, line, ateof, mem, tok, args, status, disp, child,
                 nread, nsplit, ndisp, nfork, home, cwd, lastdir, exitcode,
                 exp, trail, io, ev>>

NextGrow == SplitStep

SpecGrow == InitGrow /\ [][NextGrow]_vars

Splitting == sub.op = "split"

\* C32: every character the tokenizer stores lies inside the current
\* token's buffer and every token pointer inside the token list's current
\* storage, the capacity being grown first whenever needed, whichever
\* kind of character is stored and however often the list has been grown.
C32_StoresInBounds ==
  Splitting => ~sub.charout /\ ~sub.ptrout

\* What does hold: until a token outgrows ARG_BUF_INC characters or the
\* list is grown, every store is in bounds.
StoresInBoundsBeforeGrowth ==
  (Splitting /\ sub.linebufsize = LINE_BUF_INC) =>
    /\ ~sub.ptrout
    /\ (sub.j <= ARG_BUF_INC /\ sub.num_args = 0) => ~sub.charout

\* longest token handed to one step of the expander on its own
MaxArg == 4

(* ---------------- the home directory substitution, call by call ---- *)
\* the calls counted exactly; beyond, calls stays at MaxCalls
MaxCalls == 5

\* A home directory whose name is a tilde (HOME='~').
TildeHome == <<"~">>
TildeHomes == HomeValues \cup {TildeHome}
TildeChars == {"a", "~", "/"}
TildeStrings == UNION {[1..n -> TildeChars] : n \in 0..MaxArg}

InitTilde ==
  /\ pc = "tilde"
  /\ loop = 1
  /\ home \in TildeHomes
  /\ InitSession
  /\ io = Terminal
  /\ ev = NoEval
  /\ \E s \in TildeStrings :
       sub = [op |-> "tilde", orig |-> s, str |-> s, calls |-> 0,
              ret |-> FALSE]

\* One call of tosh_expand_tilde(str): it returns str when HOME is not set
\* or str holds no tilde, and otherwise replaces the first tilde by the
\* value of HOME and calls itself on the result.
TildeCall ==
  /\ pc = "tilde"
  /\ LET t == IndexOf(sub.str, "~")
         n == IF sub.calls < MaxCalls THEN sub.calls + 1 ELSE sub.calls
     IN IF home = HomeUnset \/ t = 0
        THEN /\ sub' = [sub EXCEPT !.calls = n, !.ret = TRUE]
             /\ pc' = "tilded"
        ELSE /\ sub' = [sub EXCEPT !.calls = n,
                                   !.str = tosh_expand_tilde_first(@, home)]
             /\ pc' = pc
  /\ UNCHANGED <<loop, line, ateof, mem, tok, args, status, disp, child,
                 nread, nsplit, ndisp, nfork, home, cwd, lastdir, exitcode,
                 exp, trail, io, ev>>

NextTilde == TildeCall

SpecTilde == InitTilde /\ [][NextTilde]_vars

\* The calls follow one another: the process is sequential.
SpecTildeFair == SpecTilde /\ WF_vars(TildeCall)

TildeReturned == sub.op = "tilde" /\ sub.ret

\* C31: the home directory substitution terminates for every token and
\* every value of HOME, and when HOME is set it ends with a token that
\* holds no tilde.
C31_TildeTerminates ==
  /\ <>TildeReturned
  /\ [](TildeReturned /\ home # HomeUnset => IndexOf(sub.str, "~") = 0)

\* What does hold: the substitution terminates when the value of HOME holds
\* no tilde, and whenever it returns with HOME set no tilde is left.
TildeFreeHomeTerminates ==
  /\ IndexOf(home, "~") = 0 => <>TildeReturned
  /\ [](TildeReturned /\ home # HomeUnset => IndexOf(sub.str, "~") = 0)

\* Where it does terminate, it agrees with the substitution of the session
\* model.
TildeCallsAgree ==
  TildeReturned => sub.str = tosh_expand_tilde(sub.orig, home)

(* ---------------- the command substitution on one token ------------- *)
LocChars == {"a", "$", "(", ")", " "}
LocStrings == UNION {[1..n -> LocChars] : n \in 0..MaxArg}
LocOutputs ==
  { << >>, <<"h", "i", "\n">>, <<"a", "b", "c", "d", "\n">> }

InitLoc ==
  /\ pc = "locate"
  /\ loop = 1
  /\ home = HomeDir
  /\ InitSession
  /\ io = Terminal
  /\ ev = NoEval
  /\ \E s \in LocStrings : sub = [op |-> "locate", str |-> s]

\* tosh_expand_expression(str): the expression is located, evaluated (out
\* is what the subshell wrote) and its result substituted into newstr.
ExpandExpression ==
  /\ pc = "locate"
  /\ pc' = "located"
  /\ \E out \in LocOutputs :
       LET l == tosh_locate_expression(sub.str)
           x == tosh_expand_expression(sub.str, out, CleanMem)
       IN sub' = [op |-> "locate",
                  str |-> sub.str,
                  loc |-> l,
                  found |-> x.found,
                  expr |-> x.expr,
                  result |-> x.result,
                  newstr |-> x.str,
                  allocated |-> IF x.found
                                THEN SubstituteAllocated(sub.str, l.rsi, l.rei,
                                                         x.result)
                                ELSE 0,
                  written |-> IF x.found
                              THEN SubstituteWritten(sub.str, l.rsi, l.rei,
                                                     x.result)
                              ELSE 0]
  /\ UNCHANGED <<loop, line, ateof, mem, tok, args, status, disp, child,
                 nread, nsplit, ndisp, nfork, home, cwd, lastdir, exitcode,
                 exp, trail, io, ev>>

NextLoc == ExpandExpression

SpecLoc == InitLoc /\ [][NextLoc]_vars

Located == sub.op = "locate" /\ pc = "located"

\* 1-based position of the first character of str at or after position
\* from that is in set; Len(str) + 1 when there is none.
FirstIn(str, from, set) ==
  IF \E k \in from..Len(str) : str[k] \in set
  THEN CHOOSE k \in from..Len(str) :
         str[k] \in set /\ \A j \in from..(k - 1) : str[j] \notin set
  ELSE Len(str) + 1

\* The positions (1-based) of the span [rsi, rei) to replace.
Span(l) == (l.rsi + 1)..l.rei

Bracketed(str) ==
  LET d == FirstIn(str, 1, {"$"}) IN d < Len(str) /\ str[d + 1] = "("

\* C36: the substitution located in a token starts at its first $.  When
\* the next character is (, the expression is the text between that ( and
\* the first ) after it and the span replaced runs from the $ through that
\* ); without any ) there is no substitution.  Otherwise the expression is
\* the text after the $ up to the next space, tab, newline or the end of
\* the token, and the span runs from the $ to that point.  A token without
\* $ has no substitution.  A token with no substitution is left as it is.
C36_LocatesFirstExpression ==
  Located =>
    LET s == sub.str
        d == FirstIn(s, 1, {"$"})
        c == FirstIn(s, d + 2, {")"})
        w == FirstIn(s, d + 1, {" ", "\t", "\n"})
    IN IF d > Len(s) THEN ~sub.found /\ sub.newstr = s
       ELSE IF Bracketed(s)
       THEN IF c > Len(s) THEN ~sub.found /\ sub.newstr = s
            ELSE /\ sub.found
                 /\ sub.expr = SubSeq(s, d + 2, c - 1)
                 /\ Span(sub.loc) = d..c
       ELSE /\ sub.found
            /\ sub.expr = SubSeq(s, d + 1, w - 1)
            /\ Span(sub.loc) = d..(w - 1)

\* A bracketed expression closed twice, and an unbracketed one followed by
\* a space, have been located.
C36_Witness ==
  /\ Located
  /\ sub.found
  /\ sub.str \in {<<"$", "(", ")", ")">>, <<"$", "a", " ", "a">>}

\* C33: the bytes allocated for the result of a substitution hold every
\* write made into it: the copy of the whole original token, the inserted
\* text and the remaining suffix with its terminator.
C33_SubstitutionFits ==
  (Located /\ sub.found) => sub.written <= sub.allocated

\* What does hold: the allocation is exactly the length of the final
\* string, one byte short of the string with its terminator, and the first
\* copy alone writes the whole original token with its terminator.
SubstitutionOneByteShort ==
  (Located /\ sub.found) =>
    /\ sub.allocated = Len(sub.newstr)
    /\ sub.written >= Len(sub.newstr) + 1
    /\ sub.written >= Len(sub.str) + 1

====
